---- MODULE Spec2Model ----
(***************************************************************************)
(* Experiment lifecycle and directory-addressed artifact store of the      *)
(* sales-forecasting MLOps harness: directory provisioning (utils.setup),  *)
(* training runs and batches (train.main, utils.validate_params),          *)
(* promotion of an experiment into the deployed slot (deploy.main,         *)
(* copy_files, validate_deploy) and the queries of inference.py.           *)
(*                                                                         *)
(* The filesystem is a function from paths to entries.  A path is the      *)
(* sequence of its components below the filesystem root; every component   *)
(* is a plain relative name, so os.path.join appends one component.        *)
(***************************************************************************)
EXTENDS Naturals, Sequences, FiniteSets, TLC

VARIABLES
    fs,    \* the filesystem: path -> entry
    last,  \* the operation that returned last, with its arguments and result
    pre,   \* SpecTrees: the filesystem before the last operation
    pc     \* SpecRace, SpecProvision: where each running process stands

vars == <<fs, last, pre, pc>>

(***************************************************************************)
(* Bounds of the model and the names it draws inputs from.                 *)
(***************************************************************************)
NumIds == 2
NumContents == 2

ExecutionNames == <<"run1", "run2">>
IdNames == <<"a", "b", "c", "d">>
ContentNames == <<"c1", "c2", "c3", "c4">>

\* the execution the callers work in and the descriptions a deploy is given
Executions == {"run1"}
Descriptions == {"desc1", "desc2"}

Ids == {IdNames[k] : k \in 1..NumIds}
Contents == {ContentNames[k] : k \in 1..NumContents}

(***************************************************************************)
(* Filesystem entries and the os / os.path / shutil primitives the code    *)
(* calls.  A primitive that can raise returns [err, fs]: err is "none" or  *)
(* the name of the exception, fs the filesystem it leaves.                 *)
(***************************************************************************)
Dir == [kind |-> "dir", origin |-> "", body |-> ""]
File(o, b) == [kind |-> "file", origin |-> o, body |-> b]

Ok(f) == [err |-> "none", fs |-> f]
Raise(e, f) == [err |-> e, fs |-> f]

get_proj_dir == <<"proj">>

join(p, name) == Append(p, name)
dirname(p) == SubSeq(p, 1, Len(p) - 1)
basename(p) == p[Len(p)]

exists(f, p) == p \in DOMAIN f
isfile(f, p) == p \in DOMAIN f /\ f[p].kind = "file"
isdir(f, p) == p \in DOMAIN f /\ f[p].kind = "dir"

\* os.mkdir(p)
mkdir(f, p) ==
    IF exists(f, p) THEN Raise("FileExistsError", f)
    ELSE IF ~exists(f, dirname(p)) THEN Raise("FileNotFoundError", f)
    ELSE IF ~isdir(f, dirname(p)) THEN Raise("NotADirectoryError", f)
    ELSE Ok((p :> Dir) @@ f)

\* with open(p, "w") as h: h.write(b)
write_file(f, p, o, b) ==
    IF isdir(f, p) THEN Raise("IsADirectoryError", f)
    ELSE IF ~exists(f, dirname(p)) THEN Raise("FileNotFoundError", f)
    ELSE IF ~isdir(f, dirname(p)) THEN Raise("NotADirectoryError", f)
    ELSE Ok((p :> File(o, b)) @@ f)

\* what a file holds when it has been opened for writing and nothing was
\* written yet: no JSON token, or no character
Empty(p) == IF basename(p) = "experiment_params.json" THEN <<>> ELSE ""

\* open(p, "w") on its own: the file is there and holds nothing
open_w(f, p) ==
    IF isdir(f, p) THEN Raise("IsADirectoryError", f)
    ELSE IF ~exists(f, dirname(p)) THEN Raise("FileNotFoundError", f)
    ELSE IF ~isdir(f, dirname(p)) THEN Raise("NotADirectoryError", f)
    ELSE Ok((p :> File("", Empty(p))) @@ f)

\* shutil.copy(s, d) up to the opening of the destination for writing
shutil_copy_open(f, s, d) ==
    open_w(f, IF isdir(f, d) THEN join(d, basename(s)) ELSE d)

\* shutil_copy that keeps a file already at the destination
shutil_copy_keep(f, s, d) ==
    LET target == IF isdir(f, d) THEN join(d, basename(s)) ELSE d
    IN  IF exists(f, target) THEN Ok(f)
        ELSE write_file(f, target, f[s].origin, f[s].body)

\* shutil.copy(s, d): s is a file; a directory d receives the file under
\* the source's base name.
shutil_copy(f, s, d) ==
    LET target == IF isdir(f, d) THEN join(d, basename(s)) ELSE d
    IN  write_file(f, target, f[s].origin, f[s].body)

\* os.listdir(d) as the set of names it returns
listdir(f, d) == {basename(p) : p \in {q \in DOMAIN f : Len(q) = Len(d) + 1 /\ dirname(q) = d}}

\* the lists with the members of S, each once
RECURSIVE Perms(_)
Perms(S) ==
    IF S = {} THEN {<<>>}
    ELSE UNION {{<<x>> \o p : p \in Perms(S \ {x})} : x \in S}

\* The order of os.listdir's list is arbitrary and each call has its own.
\* An order gives every directory the list a call on it returns.
\* DirOrders: the orders of one call on d; TreeOrders: those of one call
\* on d and on every directory below it.
DirsIn(f, d) ==
    {q \in DOMAIN f : /\ f[q].kind = "dir"
                      /\ Len(q) >= Len(d) /\ SubSeq(q, 1, Len(d)) = d}

RECURSIVE OrdersOver(_, _)
OrdersOver(f, dirs) ==
    IF dirs = {} THEN {<<>>}
    ELSE LET x == CHOOSE y \in dirs : TRUE
         IN  {(x :> p) @@ o : p \in Perms(listdir(f, x)), o \in OrdersOver(f, dirs \ {x})}

DirOrders(f, d) == OrdersOver(f, {d} \cap DirsIn(f, d))
TreeOrders(f, d) == OrdersOver(f, DirsIn(f, d))

\* os.listdir(d) as the list it returns in the given order
listdir_seq(f, d, order) ==
    LET names == listdir(f, d)
        present(n) == n \in names
    IN  SelectSeq(order[d], present)

(***************************************************************************)
(* utils.setup: nine check-then-create steps, then the path bundle.        *)
(***************************************************************************)
\* SetupDirs with the experiment's logs directory inside the experiment
SetupDirs_logs_inside(execution_name, experiment_uid) ==
    <<join(get_proj_dir, "experiments"),
      join(join(get_proj_dir, "experiments"), execution_name),
      join(join(join(get_proj_dir, "experiments"), execution_name), experiment_uid),
      join(join(join(join(get_proj_dir, "experiments"), execution_name), experiment_uid), "models"),
      join(join(join(join(get_proj_dir, "experiments"), execution_name), experiment_uid), "plots"),
      join(get_proj_dir, "logs"),
      join(join(get_proj_dir, "logs"), execution_name),
      join(join(join(join(get_proj_dir, "experiments"), execution_name), experiment_uid), "logs"),
      join(get_proj_dir, "deployed_models")>>

\* the directories setup makes sure of, in the order of its steps
SetupDirs(execution_name, experiment_uid) ==
    <<join(get_proj_dir, "experiments"),
      join(join(get_proj_dir, "experiments"), execution_name),
      join(join(join(get_proj_dir, "experiments"), execution_name), experiment_uid),
      join(join(join(join(get_proj_dir, "experiments"), execution_name), experiment_uid), "models"),
      join(join(join(join(get_proj_dir, "experiments"), execution_name), experiment_uid), "plots"),
      join(get_proj_dir, "logs"),
      join(join(get_proj_dir, "logs"), execution_name),
      join(join(join(get_proj_dir, "logs"), execution_name), experiment_uid),
      join(get_proj_dir, "deployed_models")>>

\* ensure_dir with the directory emptied and made anew when it exists
ensure_dir_recreate(f, p) ==
    Ok((p :> Dir) @@ [q \in {x \in DOMAIN f : ~(Len(x) > Len(p) /\ SubSeq(x, 1, Len(p)) = p)} |-> f[q]])

\* ensure_dir without the existence check
ensure_dir_unchecked(f, p) == mkdir(f, p)

\* one step: if os.path.exists(p) == False: os.mkdir(p)
ensure_dir(f, p) == IF exists(f, p) = FALSE THEN mkdir(f, p) ELSE Ok(f)

RECURSIVE setup_from(_, _, _)
setup_from(f, dirs, k) ==
    IF k > Len(dirs) THEN Ok(f)
    ELSE LET r == ensure_dir(f, dirs[k])
         IN  IF r.err # "none" THEN r ELSE setup_from(r.fs, dirs, k + 1)

\* setup_paths with the first two members of the tuple exchanged
setup_paths_swapped(execution_name, experiment_uid) ==
    <<join(join(join(join(get_proj_dir, "experiments"), execution_name), experiment_uid), "models"),
      join(join(join(get_proj_dir, "experiments"), execution_name), experiment_uid),
      join(join(join(join(get_proj_dir, "experiments"), execution_name), experiment_uid), "plots"),
      join(join(join(get_proj_dir, "logs"), execution_name), experiment_uid),
      join(get_proj_dir, "deployed_models")>>

\* the tuple setup returns:
\* (experiment_path, model_dir, plots_dir, logs_dir, deployed_models_dir)
setup_paths(execution_name, experiment_uid) ==
    <<join(join(join(get_proj_dir, "experiments"), execution_name), experiment_uid),
      join(join(join(join(get_proj_dir, "experiments"), execution_name), experiment_uid), "models"),
      join(join(join(join(get_proj_dir, "experiments"), execution_name), experiment_uid), "plots"),
      join(join(join(get_proj_dir, "logs"), execution_name), experiment_uid),
      join(get_proj_dir, "deployed_models")>>

\* setup as a whole: [err, fs, paths]
setup(f, execution_name, experiment_uid) ==
    LET r == setup_from(f, SetupDirs(execution_name, experiment_uid), 1)
    IN  [err |-> r.err, fs |-> r.fs,
         paths |-> setup_paths(execution_name, experiment_uid)]

(***************************************************************************)
(* manage/deploy_experiment.py                                             *)
(***************************************************************************)
RECURSIVE copy_files(_, _, _, _), copy_entries(_, _, _, _, _)
RECURSIVE copy_entries_files_only(_, _, _, _, _)

\* copy_files(src_dir, dest_dir); order is what its os.listdir calls return
copy_files(f, src_dir, dest_dir, order) ==
    LET r == IF exists(f, dest_dir) = FALSE THEN mkdir(f, dest_dir) ELSE Ok(f)
    IN  IF r.err # "none" THEN r
        ELSE copy_entries(r.fs, src_dir, dest_dir, listdir_seq(r.fs, src_dir, order), order)

\* copy_entries that copies the files and does not enter the directories
copy_entries_files_only(f, src_dir, dest_dir, names, order) ==
    IF names = <<>> THEN Ok(f)
    ELSE LET source == join(src_dir, Head(names))
             destination == join(dest_dir, Head(names))
             r == IF isfile(f, source)
                  THEN shutil_copy(f, source, destination)
                  ELSE Ok(f)
         IN  IF r.err # "none" THEN r
             ELSE copy_entries_files_only(r.fs, src_dir, dest_dir, Tail(names), order)

\* the for loop of copy_files over the listed names
copy_entries(f, src_dir, dest_dir, names, order) ==
    IF names = <<>> THEN Ok(f)
    ELSE LET source == join(src_dir, Head(names))
             destination == join(dest_dir, Head(names))
             r == IF isfile(f, source)
                  THEN shutil_copy(f, source, destination)
                  ELSE copy_files(f, source, destination, order)
         IN  IF r.err # "none" THEN r
             ELSE copy_entries(r.fs, src_dir, dest_dir, Tail(names), order)

\* validate_deploy that checks the files of the top directory only
validate_deploy_flat(f, src_dir, dest_dir) ==
    IF exists(f, dest_dir) = FALSE THEN FALSE
    ELSE \A file_name \in listdir(f, src_dir) :
            isfile(f, join(src_dir, file_name)) => exists(f, join(dest_dir, file_name))

RECURSIVE validate_deploy(_, _, _)
validate_deploy(f, src_dir, dest_dir) ==
    IF exists(f, dest_dir) = FALSE THEN FALSE
    ELSE \A file_name \in listdir(f, src_dir) :
            LET source == join(src_dir, file_name)
                destination == join(dest_dir, file_name)
            IN  IF isfile(f, source)
                THEN exists(f, destination)
                ELSE validate_deploy(f, source, destination)

(***************************************************************************)
(* deploy.main: [result, fs].  result is the returned message, or the      *)
(* exception that left main.                                               *)
(***************************************************************************)
Successful == "Model deployment successful"
Failed == "Model deployment failed"

\* deploy_main with src_dir taken from model_dir
deploy_main_from_model_dir(f, execution_name, experiment_id, description, order) ==
    LET s == setup(f, execution_name, experiment_id)
        src_dir == s.paths[2]
        dest_dir == s.paths[5]
        c == copy_files(s.fs, src_dir, dest_dir, order)
        w == write_file(c.fs, join(dest_dir, "deployment_desc.txt"), "", description)
    IN  IF s.err # "none" THEN [result |-> s.err, fs |-> s.fs]
        ELSE IF c.err # "none" THEN [result |-> c.err, fs |-> c.fs]
        ELSE IF validate_deploy(c.fs, src_dir, dest_dir)
             THEN IF w.err # "none" THEN [result |-> w.err, fs |-> w.fs]
                  ELSE [result |-> Successful, fs |-> w.fs]
             ELSE [result |-> Failed, fs |-> c.fs]

\* deploy_main with the description file opened in append mode
deploy_main_append(f, execution_name, experiment_id, description, order) ==
    LET s == setup(f, execution_name, experiment_id)
        src_dir == s.paths[1]
        dest_dir == s.paths[5]
        c == copy_files(s.fs, src_dir, dest_dir, order)
        desc_file == join(dest_dir, "deployment_desc.txt")
        old == IF isfile(c.fs, desc_file) THEN c.fs[desc_file].body ELSE ""
        w == write_file(c.fs, desc_file, "", old \o description)
    IN  IF s.err # "none" THEN [result |-> s.err, fs |-> s.fs]
        ELSE IF c.err # "none" THEN [result |-> c.err, fs |-> c.fs]
        ELSE IF validate_deploy(c.fs, src_dir, dest_dir)
             THEN IF w.err # "none" THEN [result |-> w.err, fs |-> w.fs]
                  ELSE [result |-> Successful, fs |-> w.fs]
             ELSE [result |-> Failed, fs |-> c.fs]

\* deploy_main that reports failure for a source without a params file
deploy_main_complete_only(f, execution_name, experiment_id, description, order) ==
    LET s == setup(f, execution_name, experiment_id)
        src_dir == s.paths[1]
        dest_dir == s.paths[5]
        c == copy_files(s.fs, src_dir, dest_dir, order)
        w == write_file(c.fs, join(dest_dir, "deployment_desc.txt"), "", description)
    IN  IF s.err # "none" THEN [result |-> s.err, fs |-> s.fs]
        ELSE IF ~exists(s.fs, join(src_dir, "experiment_params.json"))
        THEN [result |-> Failed, fs |-> s.fs]
        ELSE IF c.err # "none" THEN [result |-> c.err, fs |-> c.fs]
        ELSE IF validate_deploy(c.fs, src_dir, dest_dir)
             THEN IF w.err # "none" THEN [result |-> w.err, fs |-> w.fs]
                  ELSE [result |-> Successful, fs |-> w.fs]
             ELSE [result |-> Failed, fs |-> c.fs]

\* the orders the listings of deploy.main's copy can come in: the source
\* is listed after setup has made its directories
CopyOrders(f, execution_name, experiment_id) ==
    TreeOrders(setup(f, execution_name, experiment_id).fs,
               setup_paths(execution_name, experiment_id)[1])

\* one of them, for a deploy that runs to its end with nobody else at
\* work: what it returns and leaves is the same under every order
\* (DeployOrderFree below)
ListedOrder(f, execution_name, experiment_id) ==
    CHOOSE order \in CopyOrders(f, execution_name, experiment_id) : TRUE

deploy_main(f, execution_name, experiment_id, description, order) ==
    LET s == setup(f, execution_name, experiment_id)
        src_dir == s.paths[1]
        dest_dir == s.paths[5]
        c == copy_files(s.fs, src_dir, dest_dir, order)
        w == write_file(c.fs, join(dest_dir, "deployment_desc.txt"), "", description)
    IN  IF s.err # "none" THEN [result |-> s.err, fs |-> s.fs]
        ELSE IF c.err # "none" THEN [result |-> c.err, fs |-> c.fs]
        ELSE IF validate_deploy(c.fs, src_dir, dest_dir)
             THEN IF w.err # "none" THEN [result |-> w.err, fs |-> w.fs]
                  ELSE [result |-> Successful, fs |-> w.fs]
             ELSE [result |-> Failed, fs |-> c.fs]

(***************************************************************************)
(* Params objects and their JSON text.  A Python value is a sequence of    *)
(* strings that starts with its type: None, a str, a list of strs, or a    *)
(* dict of strs (model_params).  A params object is a function from the    *)
(* keys it has to values; params.get(key) is None for a key it lacks.      *)
(* The JSON text of a file is its sequence of tokens.                      *)
(***************************************************************************)
None == <<"None">>
Str(s) == <<"str", s>>
List(items) == <<"list">> \o items
Dict(items) == <<"dict">> \o items

ParamKeys ==
    <<"name", "description", "model_type", "id", "target", "features", "model_params">>

get(params, key) == IF key \in DOMAIN params THEN params[key] ELSE None

\* json.dumps of one value
json_value(v) ==
    IF v[1] = "None" THEN <<"null">>
    ELSE IF v[1] = "str" THEN <<"str", v[2]>>
    ELSE IF v[1] = "list" THEN <<"[">> \o Tail(v) \o <<"]">>
    ELSE <<"{">> \o Tail(v) \o <<"}">>

RECURSIVE json_members(_, _)
json_members(params, k) ==
    IF k > Len(ParamKeys) THEN <<>>
    ELSE (IF ParamKeys[k] \in DOMAIN params
          THEN <<ParamKeys[k]>> \o json_value(params[ParamKeys[k]])
          ELSE <<>>) \o json_members(params, k + 1)

\* json.dumps(params, indent=4)
json_dumps(params) == <<"{">> \o json_members(params, 1) \o <<"}">>

\* the position of the first token t at or after position k, 0 if none
RECURSIVE find_token(_, _, _)
find_token(text, t, k) ==
    IF k > Len(text) THEN 0
    ELSE IF text[k] = t THEN k
    ELSE find_token(text, t, k + 1)

\* one value read at position k: [ok, value, next]
json_read_value(text, k) ==
    LET bad == [ok |-> FALSE, value |-> None, next |-> k]
        close == find_token(text, IF text[k] = "[" THEN "]" ELSE "}", k + 1)
    IN  IF k > Len(text) THEN bad
        ELSE IF text[k] = "null" THEN [ok |-> TRUE, value |-> None, next |-> k + 1]
        ELSE IF text[k] = "str"
             THEN IF k + 1 > Len(text) THEN bad
                  ELSE [ok |-> TRUE, value |-> Str(text[k + 1]), next |-> k + 2]
        ELSE IF text[k] \in {"[", "{"}
             THEN IF close = 0 THEN bad
                  ELSE [ok |-> TRUE,
                        value |-> (IF text[k] = "[" THEN List(SubSeq(text, k + 1, close - 1))
                                   ELSE Dict(SubSeq(text, k + 1, close - 1))),
                        next |-> close + 1]
        ELSE bad

\* the members of the object from position k on: [ok, obj]
RECURSIVE json_read_members(_, _, _)
json_read_members(text, k, obj) ==
    IF k > Len(text) THEN [ok |-> FALSE, obj |-> obj]
    ELSE IF text[k] = "}" THEN [ok |-> (k = Len(text)), obj |-> obj]
    ELSE LET v == json_read_value(text, k + 1)
         IN  IF ~v.ok THEN [ok |-> FALSE, obj |-> obj]
             ELSE json_read_members(text, v.next, (text[k] :> v.value) @@ obj)

\* json.load(f): [err, obj]
json_load(text) ==
    LET r == json_read_members(text, 2, <<>>)
    IN  IF Len(text) >= 2 /\ text[1] = "{" /\ r.ok
        THEN [err |-> "none", obj |-> r.obj]
        ELSE [err |-> "JSONDecodeError", obj |-> <<>>]

\* validate_params that does not look at model_params
validate_params_six(params) ==
    /\ get(params, "name") # None
    /\ get(params, "description") # None
    /\ get(params, "model_type") # None
    /\ get(params, "id") # None
    /\ get(params, "target") # None
    /\ get(params, "features") # None

\* utils.validate_params
validate_params(params) ==
    /\ get(params, "name") # None
    /\ get(params, "description") # None
    /\ get(params, "model_type") # None
    /\ get(params, "id") # None
    /\ get(params, "target") # None
    /\ get(params, "features") # None
    /\ get(params, "model_params") # None

\* the params object of the sales model
DefaultParams ==
    [key \in {ParamKeys[k] : k \in 1..Len(ParamKeys)} |->
        IF key = "features" THEN List(<<"onpromotion", "dcoilwtico">>)
        ELSE IF key = "model_params"
             THEN Dict(<<"train_start_dt", "2017-01-01", "train_end_dt", "2017-07-15">>)
        ELSE IF key = "id" THEN Str("date")
        ELSE IF key = "target" THEN Str("sales")
        ELSE Str(key)]

(***************************************************************************)
(* train.main for one entry of the experiments mapping.                    *)
(***************************************************************************)
\* lines 159-165: the logs directory and the run's log file
train_prelude(f) ==
    LET r == ensure_dir(f, join(get_proj_dir, "logs"))
    IN  IF r.err # "none" THEN r
        ELSE write_file(r.fs, join(join(get_proj_dir, "logs"), "logs.log"), "", "log")

\* experiment_writes with the model saved under deployed_models_dir
experiment_writes_model_in_slot(execution_name, experiment_uid, params) ==
    LET paths == setup_paths(execution_name, experiment_uid)
    IN  <<[path |-> join(paths[4], "pycaret_logs.csv"), body |-> "log"],
          [path |-> join(paths[5], "model.pkl"), body |-> "model"],
          [path |-> join(paths[3], "train_plot.png"), body |-> "plot"],
          [path |-> join(paths[3], "valid_plot.png"), body |-> "plot"],
          [path |-> join(paths[1], "model_metrics.csv"), body |-> "metrics"],
          [path |-> join(paths[1], "experiment_params.json"), body |-> json_dumps(params)]>>

\* the files one experiment writes, in the order the code writes them
experiment_writes(execution_name, experiment_uid, params) ==
    LET paths == setup_paths(execution_name, experiment_uid)
    IN  <<[path |-> join(paths[4], "pycaret_logs.csv"), body |-> "log"],
          [path |-> join(paths[2], "model.pkl"), body |-> "model"],
          [path |-> join(paths[3], "train_plot.png"), body |-> "plot"],
          [path |-> join(paths[3], "valid_plot.png"), body |-> "plot"],
          [path |-> join(paths[1], "model_metrics.csv"), body |-> "metrics"],
          [path |-> join(paths[1], "experiment_params.json"), body |-> json_dumps(params)]>>

\* train_writes with the metrics file written as soon as the model is saved
train_writes_metrics_early(execution_name, experiment_uid) ==
    LET w == experiment_writes(execution_name, experiment_uid, DefaultParams)
    IN  <<w[1], w[2], w[5], w[3], w[4], w[6]>>

\* the files of a run on the params object of the sales model
train_writes(execution_name, experiment_uid) ==
    experiment_writes(execution_name, experiment_uid, DefaultParams)

RECURSIVE write_first(_, _, _, _, _)
write_first(f, writes, origin, k, n) ==
    IF k > n THEN Ok(f)
    ELSE LET r == write_file(f, writes[k].path, origin, writes[k].body)
         IN  IF r.err # "none" THEN r ELSE write_first(r.fs, writes, origin, k + 1, n)

\* lines 199-234 for a valid params object: the experiment writes its
\* first n files and then either is complete or an external step raises.
run_experiment(f, execution_name, experiment_uid, params, n) ==
    LET s == setup(f, execution_name, experiment_uid)
        writes == experiment_writes(execution_name, experiment_uid, params)
        w == write_first(s.fs, writes, experiment_uid, 1, n)
    IN  IF s.err # "none" THEN [result |-> s.err, fs |-> s.fs]
        ELSE IF w.err # "none" THEN [result |-> w.err, fs |-> w.fs]
        ELSE IF n = Len(writes) THEN [result |-> "complete", fs |-> w.fs]
        ELSE [result |-> "raised", fs |-> w.fs]

train_experiment(f, execution_name, experiment_uid, n) ==
    run_experiment(f, execution_name, experiment_uid, DefaultParams, n)

train_main(f, execution_name, experiment_uid, n) ==
    LET p == train_prelude(f)
    IN  IF p.err # "none" THEN [result |-> p.err, fs |-> p.fs]
        ELSE train_experiment(p.fs, execution_name, experiment_uid, n)

\* uuid.uuid4(): an id that names nothing yet.  The ids are opaque, so the
\* runs take them in the order of IdNames.
Used(f, experiment_uid) ==
    \E q \in DOMAIN f : \E k \in 1..Len(q) : q[k] = experiment_uid
Fresh(f, experiment_uid) ==
    /\ ~Used(f, experiment_uid)
    /\ \A k \in 1..NumIds : IdNames[k] = experiment_uid =>
            \A j \in 1..(k - 1) : Used(f, IdNames[j])

\* the ids a caller of deploy or of a query passes: one that names an
\* experiment directory, or one that names nothing (which no later run
\* generates)
CallerIds(f) == {i \in Ids : Used(f, i) \/ Fresh(f, i)}

(***************************************************************************)
(* inference.py: the queries.  Each returns [result, value, fs]: result    *)
(* says what came back ("params", "report", "predictions", "description",  *)
(* or "None" when the function printed a message and returned nothing) or  *)
(* names the exception that left the function; value is what came back.    *)
(***************************************************************************)
Returned(what, v, f) == [result |-> what, value |-> v, fs |-> f]
Raised(e, f) == [result |-> e, value |-> None, fs |-> f]

\* reported_params with the features sorted by name
reported_params_sorted(params) ==
    [key \in {"name", "description", "model_type", "id", "target", "features"} |->
        IF key = "features" /\ get(params, key)[1] = "list"
        THEN List(SelectSeq(<<"dcoilwtico", "onpromotion">>,
                            LAMBDA x : \E k \in 2..Len(get(params, key)) : get(params, key)[k] = x))
        ELSE get(params, key)]

\* lines 125-139: the dict get_experiment_params builds from the file
reported_params(params) ==
    [key \in {"name", "description", "model_type", "id", "target", "features"} |->
        get(params, key)]

\* with open(file, "r") as f: params = json.load(f): [err, obj]
read_params(f, file) ==
    IF isdir(f, file) THEN [err |-> "IsADirectoryError", obj |-> <<>>]
    ELSE json_load(f[file].body)

get_experiment_params(f, execution_name, experiment_id) ==
    LET s == setup(f, execution_name, experiment_id)
        experiment_params_file == join(s.paths[1], "experiment_params.json")
        loaded == read_params(s.fs, experiment_params_file)
    IN  IF s.err # "none" THEN Raised(s.err, s.fs)
        ELSE IF exists(s.fs, experiment_params_file)
             THEN (IF loaded.err # "none" THEN Raised(loaded.err, s.fs)
                   ELSE Returned("params", reported_params(loaded.obj), s.fs))
             ELSE Raised("FileNotFoundError", s.fs)

get_deployed_model_params(f) ==
    LET deployed_models_dir == join(get_proj_dir, "deployed_models")
        experiment_params_file == join(deployed_models_dir, "experiment_params.json")
        loaded == read_params(f, experiment_params_file)
    IN  IF exists(f, experiment_params_file)
        THEN (IF loaded.err # "none" THEN Raised(loaded.err, f)
              ELSE Returned("params", reported_params(loaded.obj), f))
        ELSE Returned("None", None, f)

\* model_predictions on the model saved under models_dir: the rows are
\* those of the model (who trained it), the columns as asked
model_predictions(f, models_dir, columns, rows) ==
    LET model == join(models_dir, "model.pkl")
    IN  IF ~isfile(f, model) THEN Raised("FileNotFoundError", f)
        ELSE IF f[model].body = Empty(model) THEN Raised("EOFError", f)
        ELSE Returned("predictions", <<"model", f[model].origin>> \o columns \o rows, f)

\* cols_to_report and the dates the frames are made for
prediction_columns(params) == <<get(params, "id")[2], get(params, "target")[2], "predicted">>
prediction_rows(params) == Tail(get(params, "model_params"))

\* {"train": train_predictions, "valid": valid_predictions}
predictions_dict(train, valid) ==
    Returned("predictions", <<"train">> \o train.value \o <<"valid">> \o valid.value, valid.fs)

\* the [id, target, "predicted"] frames of the train and validation data:
\* the model is loaded for the first and loaded again for the second
experiment_predictions(f, models_dir, params) ==
    IF get(params, "model_params")[1] # "dict" THEN Raised("AttributeError", f)
    ELSE LET train == model_predictions(f, models_dir, prediction_columns(params),
                                        prediction_rows(params))
             valid == model_predictions(f, models_dir, prediction_columns(params),
                                        prediction_rows(params))
         IN  IF train.result # "predictions" THEN train
             ELSE IF valid.result # "predictions" THEN valid
             ELSE predictions_dict(train, valid)

get_experiment_predictions(f, execution_name, experiment_id) ==
    LET s == setup(f, execution_name, experiment_id)
        experiment_params_file == join(s.paths[1], "experiment_params.json")
        loaded == read_params(s.fs, experiment_params_file)
    IN  IF s.err # "none" THEN Raised(s.err, s.fs)
        ELSE IF exists(s.fs, experiment_params_file)
             THEN (IF loaded.err # "none" THEN Raised(loaded.err, s.fs)
                   ELSE experiment_predictions(s.fs, s.paths[2], loaded.obj))
             ELSE Returned("None", None, s.fs)

\* pd.read_csv(report).to_json(indent=4)
read_report(f, experiment_report) ==
    IF isdir(f, experiment_report) THEN Raised("IsADirectoryError", f)
    ELSE IF f[experiment_report].body = Empty(experiment_report)
    THEN Raised("EmptyDataError", f)
    ELSE Returned("report",
                  <<"report", f[experiment_report].origin, f[experiment_report].body>>, f)

get_experiment_report(f, execution_name, experiment_id) ==
    LET s == setup(f, execution_name, experiment_id)
        experiment_report == join(s.paths[1], "model_metrics.csv")
    IN  IF s.err # "none" THEN Raised(s.err, s.fs)
        ELSE IF exists(s.fs, experiment_report) THEN read_report(s.fs, experiment_report)
        ELSE Returned("None", None, s.fs)

get_deployed_model_report(f) ==
    LET deployed_models_dir == join(get_proj_dir, "deployed_models")
        experiment_report == join(deployed_models_dir, "model_metrics.csv")
    IN  IF exists(f, experiment_report) THEN read_report(f, experiment_report)
        ELSE Returned("None", None, f)

get_deployed_predictions(f) ==
    LET deployed_models_dir == join(get_proj_dir, "deployed_models")
        experiment_params_file == join(deployed_models_dir, "experiment_params.json")
        loaded == read_params(f, experiment_params_file)
    IN  IF exists(f, experiment_params_file)
        THEN (IF loaded.err # "none" THEN Raised(loaded.err, f)
              ELSE experiment_predictions(f, join(deployed_models_dir, "models"), loaded.obj))
        ELSE Returned("None", None, f)

\* the dates the data has rows for, in order; a date argument left out
Dates == <<"2017-08-01", "2017-08-02", "2017-08-03">>
NoDate == "None"
DateIndex(d) == CHOOSE k \in 1..Len(Dates) : Dates[k] = d

\* prepare_inference_data: the rows with start_dt <= date <= end_dt
inference_rows(start_dt, end_dt) ==
    SelectSeq(Dates, LAMBDA d : DateIndex(start_dt) <= DateIndex(d)
                                /\ DateIndex(d) <= DateIndex(end_dt))

\* the columns of the frame predict returns: line 334 selects
\* [id_col, "predicted"] and drops the selection
InferenceColumns ==
    <<"date", "dcoilwtico", "is_national_event", "is_national_holiday",
      "is_local_holiday", "is_regional_holiday", "day_of_month", "day_of_week",
      "month_of_year", "onpromotion", "predicted">>

\* predict with the range left open when end_date is not given
predict_open_end(f, start_date, end_date) ==
    LET end == IF end_date = NoDate THEN Dates[Len(Dates)] ELSE end_date
        deployed_models_dir == join(get_proj_dir, "deployed_models")
        experiment_params_file == join(deployed_models_dir, "experiment_params.json")
        loaded == read_params(f, experiment_params_file)
    IN  IF exists(f, experiment_params_file)
        THEN (IF loaded.err # "none" THEN Raised(loaded.err, f)
              ELSE model_predictions(f, join(deployed_models_dir, "models"),
                                     InferenceColumns, inference_rows(start_date, end)))
        ELSE Returned("None", None, f)

predict(f, start_date, end_date) ==
    LET end == IF end_date = NoDate THEN start_date ELSE end_date
        deployed_models_dir == join(get_proj_dir, "deployed_models")
        experiment_params_file == join(deployed_models_dir, "experiment_params.json")
        loaded == read_params(f, experiment_params_file)
    IN  IF exists(f, experiment_params_file)
        THEN (IF loaded.err # "none" THEN Raised(loaded.err, f)
              ELSE model_predictions(f, join(deployed_models_dir, "models"),
                                     InferenceColumns, inference_rows(start_date, end)))
        ELSE Returned("None", None, f)

\* get_deployed_desc reading a slot without the file as the empty text
get_deployed_desc_or_empty(f) ==
    LET model_desc == join(join(get_proj_dir, "deployed_models"), "deployment_desc.txt")
    IN  IF ~isfile(f, model_desc) THEN Returned("description", Str(""), f)
        ELSE Returned("description", Str(f[model_desc].body), f)

\* with open(model_desc, "r") as f: return f.read()
get_deployed_desc(f) ==
    LET model_desc == join(join(get_proj_dir, "deployed_models"), "deployment_desc.txt")
    IN  IF ~exists(f, model_desc) THEN Raised("FileNotFoundError", f)
        ELSE IF isdir(f, model_desc) THEN Raised("IsADirectoryError", f)
        ELSE Returned("description", Str(f[model_desc].body), f)

\* get_dir_list(root_dir): the names in root_dir that are directories, in
\* the order os.listdir lists them
get_dir_list(f, root_dir, order) ==
    IF ~exists(f, root_dir) THEN Raised("FileNotFoundError", f)
    ELSE IF ~isdir(f, root_dir) THEN Raised("NotADirectoryError", f)
    ELSE Returned("dir_list",
                  List(SelectSeq(listdir_seq(f, root_dir, order),
                                 LAMBDA pth : isdir(f, join(root_dir, pth)))), f)

\* {"executions": get_dir_list(proj_dir/experiments)}
get_model_executions(f, order) ==
    LET experiments_path == join(get_proj_dir, "experiments")
        dir_list == get_dir_list(f, experiments_path, order)
    IN  IF dir_list.result # "dir_list" THEN dir_list
        ELSE Returned("executions", dir_list.value, f)

\* {"experiments": get_dir_list(proj_dir/experiments/execution_name)}
get_model_experiments(f, execution_name, order) ==
    LET experiments_path == join(join(get_proj_dir, "experiments"), execution_name)
        dir_list == get_dir_list(f, experiments_path, order)
    IN  IF dir_list.result # "dir_list" THEN dir_list
        ELSE Returned("experiments", dir_list.value, f)

(***************************************************************************)
(* The single-caller system: one operation at a time, each run to its end. *)
(***************************************************************************)
NoOp ==
    [op |-> "none", exec |-> "", id |-> "", desc |-> "", result |-> "", again |-> FALSE,
     value |-> None, start_date |-> "", end_date |-> ""]

Call(op, e, i, d, r) ==
    [op |-> op, exec |-> e, id |-> i, desc |-> d, result |-> r,
     again |-> (last.op = op /\ last.exec = e /\ last.id = i /\ last.desc = d),
     value |-> None, start_date |-> "", end_date |-> ""]

\* a query that returned r.value
Query(op, e, i, r) == [Call(op, e, i, "", r.result) EXCEPT !.value = r.value]

Init ==
    /\ fs = (<<>> :> Dir) @@ (get_proj_dir :> Dir)
    /\ last = NoOp
    /\ pre = fs
    /\ pc = <<>>

Train(e, u, n) ==
    /\ Fresh(fs, u)
    /\ LET r == train_main(fs, e, u, n)
       IN  /\ fs' = r.fs
           /\ last' = Call("train", e, u, "", r.result)
    /\ UNCHANGED <<pre, pc>>

Deploy(e, i, d) ==
    /\ LET r == deploy_main(fs, e, i, d, ListedOrder(fs, e, i))
       IN  /\ fs' = r.fs
           /\ last' = Call("deploy", e, i, d, r.result)
    /\ UNCHANGED <<pre, pc>>

\* in the states a single caller reaches, the order of the listings makes
\* no difference to a deploy run to its end
DeployOrderFree ==
    \A e \in Executions, i \in CallerIds(fs), d \in Descriptions :
        \A order \in CopyOrders(fs, e, i) :
            deploy_main(fs, e, i, d, order) = deploy_main(fs, e, i, d, ListedOrder(fs, e, i))

GetExperimentParams(e, i) ==
    /\ LET r == get_experiment_params(fs, e, i)
       IN  /\ fs' = r.fs
           /\ last' = Query("get_experiment_params", e, i, r)
    /\ UNCHANGED <<pre, pc>>

\* how many of its files a run writes before it ends
TrainStages == 0..Len(train_writes("", ""))

Next ==
    \/ \E e \in Executions, u \in Ids, n \in TrainStages : Train(e, u, n)
    \/ \E e \in Executions, i \in CallerIds(fs), d \in Descriptions : Deploy(e, i, d)
    \/ \E e \in Executions, i \in CallerIds(fs) : GetExperimentParams(e, i)

Spec == Init /\ [][Next]_vars

(***************************************************************************)
(* copy_files and validate_deploy on their own: a source experiment tree   *)
(* and a destination tree drawn from the layout's names, each file present *)
(* or not and with any of the contents, the destination also with a file   *)
(* the source never has, or absent altogether.                             *)
(***************************************************************************)
TreeSrc == join(join(join(get_proj_dir, "experiments"), "run1"), "a")
TreeDst == join(get_proj_dir, "deployed_models")

Maybe == {"absent"} \cup Contents
MaybeDir == {"nodir"} \cup Maybe

Skeleton ==
    (<<>> :> Dir) @@ (get_proj_dir :> Dir)
    @@ (join(get_proj_dir, "experiments") :> Dir)
    @@ (join(join(get_proj_dir, "experiments"), "run1") :> Dir)

FileAt(p, c) == IF c \in {"absent", "nodir"} THEN <<>> ELSE (p :> File(c, "data"))
DirWith(d, name, c) == IF c = "nodir" THEN <<>> ELSE (d :> Dir) @@ FileAt(join(d, name), c)

\* the tree at base: params file, models/model.pkl, plots/train_plot.png
\* and notes.txt, as chosen
TreeAt(base, params, model, plot, notes) ==
    (base :> Dir)
    @@ FileAt(join(base, "experiment_params.json"), params)
    @@ DirWith(join(base, "models"), "model.pkl", model)
    @@ DirWith(join(base, "plots"), "train_plot.png", plot)
    @@ FileAt(join(base, "notes.txt"), notes)

InitTrees ==
    /\ \E sp \in Maybe, sm \in MaybeDir, sl \in MaybeDir :
       \E present \in BOOLEAN, dp \in Maybe, dm \in MaybeDir, dl \in MaybeDir, dn \in Maybe :
          fs = Skeleton @@ TreeAt(TreeSrc, sp, sm, sl, "absent")
               @@ (IF present THEN TreeAt(TreeDst, dp, dm, dl, dn) ELSE <<>>)
    /\ last = NoOp
    /\ pre = fs
    /\ pc = <<>>

TreeCopy(order) ==
    /\ last.op = "none"
    /\ LET r == copy_files(fs, TreeSrc, TreeDst, order)
       IN  /\ fs' = r.fs
           /\ last' = Call("copy_files", "", "", "", r.err)
    /\ pre' = fs
    /\ UNCHANGED pc

TreeValidate ==
    /\ last.op \in {"none", "copy_files"}
    /\ last' = Call("validate_deploy", "", "", "",
                     IF validate_deploy(fs, TreeSrc, TreeDst) THEN "True" ELSE "False")
    /\ pre' = fs
    /\ UNCHANGED <<fs, pc>>

\* deploy.main for the source experiment, on the trees as they are
TreeDeploy(d, order) ==
    /\ last.op = "none"
    /\ LET r == deploy_main(fs, TreeSrc[3], TreeSrc[4], d, order)
       IN  /\ fs' = r.fs
           /\ last' = Call("deploy", TreeSrc[3], TreeSrc[4], d, r.result)
    /\ pre' = fs
    /\ UNCHANGED pc

NextTrees ==
    \/ \E order \in TreeOrders(fs, TreeSrc) : TreeCopy(order)
    \/ TreeValidate
    \/ \E d \in Descriptions, order \in CopyOrders(fs, TreeSrc[3], TreeSrc[4]) : TreeDeploy(d, order)

SpecTrees == InitTrees /\ [][NextTrees]_vars

(***************************************************************************)
(* Two provisioning calls for one execution and id running at once, step   *)
(* by step: each existence check and each os.mkdir of setup is a step.     *)
(***************************************************************************)
Provisioners == {"p1", "p2"}

InitProvision ==
    /\ fs = (<<>> :> Dir) @@ (get_proj_dir :> Dir)
    /\ last = NoOp
    /\ pre = fs
    /\ \E e \in Executions, i \in Ids :
          pc = [p \in Provisioners |-> [at |-> "check", k |-> 1, exec |-> e, id |-> i, err |-> "none"]]

\* os.path.exists(dir k) == False ?
ProvisionCheck(p) ==
    LET dirs == SetupDirs(pc[p].exec, pc[p].id)
    IN  /\ pc[p].at = "check"
        /\ pc' = [pc EXCEPT ![p] =
                    IF exists(fs, dirs[pc[p].k]) = FALSE THEN [@ EXCEPT !.at = "mkdir"]
                    ELSE IF pc[p].k = Len(dirs) THEN [@ EXCEPT !.at = "returned"]
                    ELSE [@ EXCEPT !.k = @ + 1]]
        /\ UNCHANGED <<fs, last, pre>>

\* os.mkdir(dir k)
ProvisionMkdir(p) ==
    LET dirs == SetupDirs(pc[p].exec, pc[p].id)
        r == mkdir(fs, dirs[pc[p].k])
    IN  /\ pc[p].at = "mkdir"
        /\ fs' = r.fs
        /\ pc' = [pc EXCEPT ![p] =
                    IF r.err # "none" THEN [@ EXCEPT !.at = "raised", !.err = r.err]
                    ELSE IF pc[p].k = Len(dirs) THEN [@ EXCEPT !.at = "returned"]
                    ELSE [@ EXCEPT !.at = "check", !.k = @ + 1]]
        /\ UNCHANGED <<last, pre>>

NextProvision ==
    \/ \E p \in Provisioners : ProvisionCheck(p)
    \/ \E p \in Provisioners : ProvisionMkdir(p)

SpecProvision == InitProvision /\ [][NextProvision]_vars

(***************************************************************************)
(* One training run and the deploys of a caller running at once, as two   *)
(* processes on one filesystem.  A step of a process is one call on the    *)
(* filesystem: an existence check or an os.mkdir of setup, the opening of  *)
(* a file for writing (which leaves it empty) or the writing of its        *)
(* content, one existence check, os.mkdir or listing of copy_files, the    *)
(* opening of a copy's destination or the copying of the bytes.  A caller  *)
(* of the deployed-model service reads the description at any moment.      *)
(***************************************************************************)
Idle ==
    [at |-> "idle", exec |-> "", id |-> "", desc |-> "", n |-> 0, k |-> 0, stack |-> <<>>]

Ended == [Idle EXCEPT !.at = "ended"]

\* train.main has returned or raised: one run is made, or, where the calls
\* are counted, the next run can be started
TrainOver == IF "calls" \in DOMAIN pc THEN Idle ELSE Ended

InitRace ==
    /\ fs = (<<>> :> Dir) @@ (get_proj_dir :> Dir)
    /\ last = NoOp
    /\ pre = fs
    /\ pc = [train |-> Idle, deploy |-> Idle]

\* A specification that bounds the number of calls made keeps their count
\* in pc.calls: a call can be made while the count is below the bound, and
\* making it counts.
MaxCalls == 2

Payable == IF "calls" \in DOMAIN pc THEN pc.calls < MaxCalls ELSE TRUE

Paid == IF "calls" \in DOMAIN pc THEN [pc EXCEPT !.calls = @ + 1] ELSE pc

\* the call a process returns from when an exception leaves it
Gone(who, p, e) ==
    Call(IF who = "query" THEN p.op ELSE who, p.exec, p.id, p.desc, e)

\* train.main is called, lines 156-159: os.path.exists(logs) == False ?
\* The run has no experiment id yet.
TrainStart(e) ==
    /\ pc.train.at = "idle"
    /\ Payable
    /\ pc' = [Paid EXCEPT !.train =
                [Idle EXCEPT !.exec = e,
                             !.at = IF exists(fs, join(get_proj_dir, "logs")) = FALSE
                                    THEN "logs mkdir" ELSE "log file"]]
    /\ UNCHANGED <<fs, last, pre>>

\* train.main line 160: os.mkdir(logs)
TrainLogsMkdir ==
    LET r == mkdir(fs, join(get_proj_dir, "logs"))
    IN  /\ pc.train.at = "logs mkdir"
        /\ fs' = r.fs
        /\ IF r.err # "none"
           THEN /\ pc' = [pc EXCEPT !.train = TrainOver]
                /\ last' = Gone("train", pc.train, r.err)
           ELSE /\ pc' = [pc EXCEPT !.train.at = "log file"]
                /\ UNCHANGED last
        /\ UNCHANGED pre

\* train.main lines 161-165: logging.basicConfig(filename, filemode="w")
\* makes the run's log file
TrainLogFile ==
    LET r == write_file(fs, join(join(get_proj_dir, "logs"), "logs.log"), "", "log")
    IN  /\ pc.train.at = "log file"
        /\ fs' = r.fs
        /\ IF r.err # "none"
           THEN /\ pc' = [pc EXCEPT !.train = TrainOver]
                /\ last' = Gone("train", pc.train, r.err)
           ELSE /\ pc' = [pc EXCEPT !.train.at = "uuid4"]
                /\ UNCHANGED last
        /\ UNCHANGED pre

\* train.main lines 167-200: the mapping and the params are read and
\* experiment_uid = str(uuid.uuid4()) is drawn: any id that names nothing
\* and that no call in flight was made with, whatever its place among the
\* ids; setup is entered with it
TrainUuid(u) ==
    /\ pc.train.at = "uuid4"
    /\ ~Used(fs, u)
    /\ \A who \in {"deploy", "query"} \cap DOMAIN pc :
          pc[who].at # "idle" => pc[who].id # u
    /\ pc' = [pc EXCEPT !.train.id = u, !.train.at = "setup", !.train.k = 1]
    /\ UNCHANGED <<fs, last, pre>>

\* where a process stands when setup has returned: the training run at
\* its first file, the deploy at copy_files(src_dir, dest_dir), a query at
\* the file it reads
AfterSetup(who, p) ==
    IF who = "train" THEN [p EXCEPT !.at = "open", !.k = 0]
    ELSE IF who = "query" THEN [p EXCEPT !.at = "read", !.k = 0]
    ELSE [p EXCEPT !.at = "copy", !.k = 0,
                   !.stack = <<[src |-> setup_paths(p.exec, p.id)[1],
                                dst |-> setup_paths(p.exec, p.id)[5],
                                stage |-> "check", names |-> {}, cur |-> ""]>>]

\* a caller of the inference functions that is in none of them; overlap
\* records for a call whether a deploy was going on at any moment of it
QueryIdle ==
    [at |-> "idle", op |-> "", exec |-> "", id |-> "", desc |-> "", k |-> 0,
     start_date |-> "", end_date |-> "", params |-> <<>>, train |-> <<>>,
     overlap |-> FALSE]

\* where a process is after an exception left it: the training run has
\* ended, the caller of deploy or of a query can call again
AfterRaise(who) ==
    IF who = "train" THEN TrainOver ELSE IF who = "query" THEN QueryIdle ELSE Idle

\* setup, one check: os.path.exists(dir k) == False ?
SetupCheck(who) ==
    LET p == pc[who]
        dirs == SetupDirs(p.exec, p.id)
    IN  /\ p.at = "setup"
        /\ pc' = [pc EXCEPT ![who] =
                    IF exists(fs, dirs[p.k]) = FALSE THEN [p EXCEPT !.at = "mkdir"]
                    ELSE IF p.k = Len(dirs) THEN AfterSetup(who, p)
                    ELSE [p EXCEPT !.k = @ + 1]]
        /\ UNCHANGED <<fs, last, pre>>

\* setup, one os.mkdir(dir k)
SetupMkdir(who) ==
    LET p == pc[who]
        dirs == SetupDirs(p.exec, p.id)
        r == mkdir(fs, dirs[p.k])
    IN  /\ p.at = "mkdir"
        /\ fs' = r.fs
        /\ IF r.err # "none"
           THEN /\ pc' = [pc EXCEPT ![who] = AfterRaise(who)]
                /\ last' = Gone(who, p, r.err)
           ELSE /\ pc' = [pc EXCEPT ![who] =
                             IF p.k = Len(dirs) THEN AfterSetup(who, p)
                             ELSE [p EXCEPT !.at = "setup", !.k = @ + 1]]
                /\ UNCHANGED last
        /\ UNCHANGED pre

\* the next file of the run is opened for writing
TrainOpen ==
    LET t == pc.train
        writes == train_writes(t.exec, t.id)
        r == open_w(fs, writes[t.n + 1].path)
    IN  /\ t.at = "open"
        /\ fs' = r.fs
        /\ IF r.err # "none"
           THEN /\ pc' = [pc EXCEPT !.train = TrainOver]
                /\ last' = Gone("train", t, r.err)
           ELSE /\ pc' = [pc EXCEPT !.train.at = "write"]
                /\ UNCHANGED last
        /\ UNCHANGED pre

\* the content of the opened file is written; the last file completes the run
TrainWrite ==
    LET t == pc.train
        writes == train_writes(t.exec, t.id)
        r == write_file(fs, writes[t.n + 1].path, t.id, writes[t.n + 1].body)
    IN  /\ t.at = "write"
        /\ fs' = r.fs
        /\ IF r.err # "none"
           THEN /\ pc' = [pc EXCEPT !.train = TrainOver]
                /\ last' = Gone("train", t, r.err)
           ELSE IF t.n + 1 = Len(writes)
           THEN /\ pc' = [pc EXCEPT !.train = TrainOver]
                /\ last' = Gone("train", t, "complete")
           ELSE /\ pc' = [pc EXCEPT !.train.at = "open", !.train.n = @ + 1]
                /\ UNCHANGED last
        /\ UNCHANGED pre

\* an external step of the run raises, between two files
TrainRaise ==
    /\ pc.train.at = "open"
    /\ pc' = [pc EXCEPT !.train = TrainOver]
    /\ last' = Gone("train", pc.train, "raised")
    /\ UNCHANGED <<fs, pre>>

\* deploy.main is called: lines 35-37, setup is entered
DeployStart(e, i, d) ==
    /\ pc.deploy.at = "idle"
    /\ Payable
    /\ pc' = [Paid EXCEPT !.deploy =
                [Idle EXCEPT !.at = "setup", !.exec = e, !.id = i, !.desc = d, !.k = 1]]
    /\ UNCHANGED <<fs, last, pre>>

\* copy_files line 27 for the directory on top of the stack:
\* os.path.exists(dest_dir) == False ?
DeployDestCheck ==
    LET d == pc.deploy
        top == d.stack[Len(d.stack)]
    IN  /\ d.at = "copy"
        /\ top.stage = "check"
        /\ pc' = [pc EXCEPT !.deploy.stack[Len(d.stack)].stage =
                     IF exists(fs, top.dst) = FALSE THEN "mkdir" ELSE "list"]
        /\ UNCHANGED <<fs, last, pre>>

\* copy_files line 28: os.mkdir(dest_dir)
DeployDestMkdir ==
    LET d == pc.deploy
        top == d.stack[Len(d.stack)]
        r == mkdir(fs, top.dst)
    IN  /\ d.at = "copy"
        /\ top.stage = "mkdir"
        /\ fs' = r.fs
        /\ IF r.err # "none"
           THEN /\ pc' = [pc EXCEPT !.deploy = Idle]
                /\ last' = Gone("deploy", d, r.err)
           ELSE /\ pc' = [pc EXCEPT !.deploy.stack[Len(d.stack)].stage = "list"]
                /\ UNCHANGED last
        /\ UNCHANGED pre

\* copy_files line 29: os.listdir(src_dir).  It gives the names in an
\* arbitrary order, so the loop takes the names listed here in any order:
\* names is the set of those not yet taken.
DeployList ==
    LET d == pc.deploy
        top == d.stack[Len(d.stack)]
    IN  /\ d.at = "copy"
        /\ top.stage = "list"
        /\ pc' = [pc EXCEPT !.deploy.stack[Len(d.stack)] =
                     [@ EXCEPT !.stage = "loop", !.names = listdir(fs, top.src)]]
        /\ UNCHANGED <<fs, last, pre>>

\* copy_files lines 29-37 for the name the loop takes next: a directory
\* is entered; for a file, shutil.copy opens the destination for writing,
\* which empties it
DeployCopyName(name) ==
    LET d == pc.deploy
        top == d.stack[Len(d.stack)]
        rest == SubSeq(d.stack, 1, Len(d.stack) - 1)
        source == join(top.src, name)
        destination == join(top.dst, name)
        r == shutil_copy_open(fs, source, destination)
    IN  IF isfile(fs, source)
        THEN /\ fs' = r.fs
             /\ IF r.err # "none"
                THEN /\ pc' = [pc EXCEPT !.deploy = Idle]
                     /\ last' = Gone("deploy", d, r.err)
                ELSE /\ pc' = [pc EXCEPT !.deploy.at = "copying",
                                         !.deploy.stack[Len(d.stack)].cur = name]
                     /\ UNCHANGED last
        ELSE /\ pc' = [pc EXCEPT !.deploy.stack =
                          Append(Append(rest, [top EXCEPT !.names = @ \ {name}]),
                                 [src |-> source, dst |-> destination,
                                  stage |-> "check", names |-> {}, cur |-> ""])]
             /\ UNCHANGED <<fs, last>>

\* copy_files lines 29-37, one turn of the loop over the listed names; a
\* directory with no name left is done
DeployCopyStep ==
    LET d == pc.deploy
        top == d.stack[Len(d.stack)]
        rest == SubSeq(d.stack, 1, Len(d.stack) - 1)
    IN  /\ d.at = "copy"
        /\ top.stage = "loop"
        /\ IF top.names = {}
           THEN /\ pc' = [pc EXCEPT !.deploy.stack = rest,
                                    !.deploy.at = IF rest = <<>> THEN "validate" ELSE "copy"]
                /\ UNCHANGED <<fs, last>>
           ELSE \E name \in top.names : DeployCopyName(name)
        /\ UNCHANGED pre

\* shutil.copy, after the destination was opened: the bytes the source
\* holds now are copied
DeployCopyBytes ==
    LET d == pc.deploy
        top == d.stack[Len(d.stack)]
        source == join(top.src, top.cur)
        destination == join(top.dst, top.cur)
        r == shutil_copy(fs, source, destination)
    IN  /\ d.at = "copying"
        /\ fs' = r.fs
        /\ IF r.err # "none"
           THEN /\ pc' = [pc EXCEPT !.deploy = Idle]
                /\ last' = Gone("deploy", d, r.err)
           ELSE /\ pc' = [pc EXCEPT !.deploy.at = "copy",
                                    !.deploy.stack[Len(d.stack)] =
                                        [@ EXCEPT !.names = @ \ {top.cur}, !.cur = ""]]
                /\ UNCHANGED last
        /\ UNCHANGED pre

\* deploy.main line 46 with the branch always taken to the write
deploy_branch_always(valid) == "open"

\* deploy.main lines 46-51: where main goes on the result of validate_deploy
deploy_branch(valid) == IF valid THEN "open" ELSE "return failed"

\* deploy.main line 46: validate_deploy(src_dir, dest_dir)
DeployValidate ==
    LET d == pc.deploy
        paths == setup_paths(d.exec, d.id)
        to == deploy_branch(validate_deploy(fs, paths[1], paths[5]))
    IN  /\ d.at = "validate"
        /\ IF to = "open"
           THEN /\ pc' = [pc EXCEPT !.deploy.at = "open"]
                /\ UNCHANGED last
           ELSE /\ pc' = [pc EXCEPT !.deploy = Idle]
                /\ last' = Gone("deploy", d, Failed)
        /\ UNCHANGED <<fs, pre>>

\* deploy.main line 47: open(deployment_desc.txt, "w")
DeployOpen ==
    LET d == pc.deploy
        r == open_w(fs, join(setup_paths(d.exec, d.id)[5], "deployment_desc.txt"))
    IN  /\ d.at = "open"
        /\ fs' = r.fs
        /\ IF r.err # "none"
           THEN /\ pc' = [pc EXCEPT !.deploy = Idle]
                /\ last' = Gone("deploy", d, r.err)
           ELSE /\ pc' = [pc EXCEPT !.deploy.at = "write"]
                /\ UNCHANGED last
        /\ UNCHANGED pre

\* deploy.main lines 48-49: the description is written, success returned
DeployWrite ==
    LET d == pc.deploy
        w == write_file(fs, join(setup_paths(d.exec, d.id)[5], "deployment_desc.txt"),
                        "", d.desc)
    IN  /\ d.at = "write"
        /\ fs' = w.fs
        /\ pc' = [pc EXCEPT !.deploy = Idle]
        /\ last' = Gone("deploy", d, IF w.err # "none" THEN w.err ELSE Successful)
        /\ UNCHANGED pre

\* a caller of the deployed-model service reads the description
GetDeployedDesc ==
    /\ LET r == get_deployed_desc(fs)
       IN  /\ fs' = r.fs
           /\ last' = Query("get_deployed_desc", "", "", r)
    /\ UNCHANGED <<pre, pc>>

\* the queries that enter setup(execution_name, experiment_id) first
ExperimentQueries ==
    {"get_experiment_params", "get_experiment_report", "get_experiment_predictions"}

\* get_experiment_params, get_experiment_report or
\* get_experiment_predictions is called: setup is entered
QueryStart(op, e, i) ==
    /\ pc.query.at = "idle"
    /\ Payable
    /\ pc' = [Paid EXCEPT !.query =
                [QueryIdle EXCEPT !.at = "setup", !.op = op, !.exec = e, !.id = i, !.k = 1,
                                  !.overlap = pc.deploy.at # "idle"]]
    /\ UNCHANGED <<fs, last, pre>>

\* the query returns r to its caller
QueryReturn(base, q, r) ==
    /\ pc' = [base EXCEPT !.query = QueryIdle]
    /\ last' = [Query(q.op, q.exec, q.id, r) EXCEPT
                   !.start_date = q.start_date, !.end_date = q.end_date]

\* if os.path.exists(experiment_params_file): params = json.load(f),
\* of get_experiment_predictions (199-200), get_deployed_predictions
\* (283-285) and predict (324-325)
load_params(f, experiment_params_file) ==
    LET loaded == read_params(f, experiment_params_file)
    IN  IF exists(f, experiment_params_file)
        THEN (IF loaded.err # "none" THEN Raised(loaded.err, f)
              ELSE Returned("loaded", loaded.obj, f))
        ELSE Returned("None", None, f)

\* the params are read; get_modeling_data(params) takes the dates from
\* params["model_params"] (predict takes them from its arguments), and
\* the query goes on to load the model
QueryLoaded(base, q, r) ==
    IF r.result # "loaded" THEN QueryReturn(base, q, r)
    ELSE IF q.op # "predict" /\ get(r.value, "model_params")[1] # "dict"
    THEN QueryReturn(base, q, Raised("AttributeError", fs))
    ELSE /\ pc' = [base EXCEPT !.query = [q EXCEPT !.at = "load", !.params = r.value]]
         /\ UNCHANGED last

\* get_deployed_predictions is called: lines 276-285, the params of the
\* slot are read
QueryDeployedPredictions ==
    /\ pc.query.at = "idle"
    /\ Payable
    /\ QueryLoaded(Paid, [QueryIdle EXCEPT !.op = "get_deployed_predictions",
                                           !.overlap = pc.deploy.at # "idle"],
                   load_params(fs, join(join(get_proj_dir, "deployed_models"),
                                             "experiment_params.json")))
    /\ UNCHANGED <<fs, pre>>

\* predict(start_date, end_date) is called: lines 314-325, the params of
\* the slot are read
QueryPredict(start_date, end_date) ==
    /\ pc.query.at = "idle"
    /\ Payable
    /\ QueryLoaded(Paid, [QueryIdle EXCEPT !.op = "predict", !.start_date = start_date,
                                           !.end_date = end_date,
                                           !.overlap = pc.deploy.at # "idle"],
                   load_params(fs, join(join(get_proj_dir, "deployed_models"),
                                             "experiment_params.json")))
    /\ UNCHANGED <<fs, pre>>

\* after setup, the file of the experiment is read.  setup has found or
\* made every directory of the layout and nothing removes one, so the
\* function applied to the tree as it is now does what is left of the call.
QueryRead ==
    LET q == pc.query
    IN  /\ q.at = "read"
        /\ IF q.op = "get_experiment_params"
           THEN QueryReturn(pc, q, get_experiment_params(fs, q.exec, q.id))
           ELSE IF q.op = "get_experiment_report"
           THEN QueryReturn(pc, q, get_experiment_report(fs, q.exec, q.id))
           ELSE QueryLoaded(pc, q, load_params(fs, join(setup_paths(q.exec, q.id)[1],
                                                        "experiment_params.json")))
        /\ UNCHANGED <<fs, pre>>

\* the directory the query loads model.pkl from
query_models_dir(q) ==
    IF q.op = "get_experiment_predictions" THEN setup_paths(q.exec, q.id)[2]
    ELSE join(join(get_proj_dir, "deployed_models"), "models")

\* one model_predictions(...): the model is loaded and the frame is made.
\* predict makes one frame (330); the predictions of an experiment or of
\* the slot make the one of the train data (206, 290) and then, loading
\* the model again, the one of the validation data (207, 291).
QueryLoad ==
    LET q == pc.query
        end == IF q.end_date = NoDate THEN q.start_date ELSE q.end_date
        r == IF q.op = "predict"
             THEN model_predictions(fs, query_models_dir(q), InferenceColumns,
                                    inference_rows(q.start_date, end))
             ELSE model_predictions(fs, query_models_dir(q), prediction_columns(q.params),
                                    prediction_rows(q.params))
    IN  /\ q.at = "load"
        /\ IF r.result # "predictions" \/ q.op = "predict" THEN QueryReturn(pc, q, r)
           ELSE IF q.train = <<>>
           THEN /\ pc' = [pc EXCEPT !.query.train = r.value]
                /\ UNCHANGED last
           ELSE QueryReturn(pc, q, predictions_dict([value |-> q.train], r))
        /\ UNCHANGED <<fs, pre>>

\* the steps of a deploy after its call
DeploySteps ==
    \/ DeployDestCheck
    \/ DeployDestMkdir
    \/ DeployList
    \/ DeployCopyStep
    \/ DeployCopyBytes
    \/ DeployValidate
    \/ DeployOpen
    \/ DeployWrite

\* a deploy is asked for an experiment that is listed
NextRace ==
    \/ \E e \in Executions : TrainStart(e)
    \/ TrainLogsMkdir
    \/ TrainLogFile
    \/ \E u \in Ids : TrainUuid(u)
    \/ \E who \in {"train", "deploy"} : SetupCheck(who)
    \/ \E who \in {"train", "deploy"} : SetupMkdir(who)
    \/ TrainOpen
    \/ TrainWrite
    \/ TrainRaise
    \/ \E e \in Executions, i \in {x \in Ids : Used(fs, x)}, d \in Descriptions :
            DeployStart(e, i, d)
    \/ DeploySteps
    \/ GetDeployedDesc

SpecRace == InitRace /\ [][NextRace]_vars

(***************************************************************************)
(* train.main on a batch: the experiments mapping names params files in    *)
(* the project directory; the loop of lines 174-234 takes them in order.   *)
(* An entry's file is missing, or holds text that is not JSON, or holds    *)
(* the JSON text of a params object.                                       *)
(***************************************************************************)
MaxBatch == 2

BatchFiles == <<"exp1.json", "exp2.json", "exp3.json", "exp4.json">>

\* uuid4 that returns the same id at every call
uuid4_fixed(f) == IdNames[1]

\* uuid.uuid4() of the loop: the next id that names nothing yet
uuid4(f) ==
    IdNames[CHOOSE k \in 1..Len(IdNames) :
                /\ ~Used(f, IdNames[k])
                /\ \A j \in 1..(k - 1) : Used(f, IdNames[j])]

\* main_entry with the id generated and the directories set up before the
\* params file is looked at
main_entry_setup_first(f, execution_name, experiment_file, n) ==
    LET experiment_params_file == join(get_proj_dir, experiment_file)
        loaded == json_load(f[experiment_params_file].body)
        experiment_uid == uuid4(f)
        s == setup(f, execution_name, experiment_uid)
        r == run_experiment(f, execution_name, experiment_uid, loaded.obj, n)
    IN  IF ~exists(f, experiment_params_file)
        THEN [kind |-> "skipped", what |-> "NotValidParamsFileException", id |-> "", fs |-> s.fs]
        ELSE IF isdir(f, experiment_params_file)
        THEN [kind |-> "exception", what |-> "IsADirectoryError", id |-> "", fs |-> s.fs]
        ELSE IF loaded.err # "none"
        THEN [kind |-> "exception", what |-> loaded.err, id |-> "", fs |-> s.fs]
        ELSE IF ~validate_params(loaded.obj)
        THEN [kind |-> "skipped", what |-> "NotValidParamsException", id |-> "", fs |-> s.fs]
        ELSE [kind |-> IF r.result = "complete" THEN "complete" ELSE "exception",
              what |-> r.result, id |-> experiment_uid, fs |-> r.fs]

\* one pass of the loop body, lines 175-234: [kind, what, id, fs].
\* kind is "skipped" (continue), "complete", or "exception" (the exception
\* leaves the loop and main); n is as for run_experiment.
main_entry(f, execution_name, experiment_file, n) ==
    LET experiment_params_file == join(get_proj_dir, experiment_file)
        loaded == json_load(f[experiment_params_file].body)
        experiment_uid == uuid4(f)
        r == run_experiment(f, execution_name, experiment_uid, loaded.obj, n)
    IN  IF ~exists(f, experiment_params_file)
        THEN [kind |-> "skipped", what |-> "NotValidParamsFileException", id |-> "", fs |-> f]
        ELSE IF isdir(f, experiment_params_file)
        THEN [kind |-> "exception", what |-> "IsADirectoryError", id |-> "", fs |-> f]
        ELSE IF loaded.err # "none"
        THEN [kind |-> "exception", what |-> loaded.err, id |-> "", fs |-> f]
        ELSE IF ~validate_params(loaded.obj)
        THEN [kind |-> "skipped", what |-> "NotValidParamsException", id |-> "", fs |-> f]
        ELSE [kind |-> IF r.result = "complete" THEN "complete" ELSE "exception",
              what |-> r.result, id |-> experiment_uid, fs |-> r.fs]

\* the params objects the entries of a batch hold
ReversedParams == [DefaultParams EXCEPT !["features"] = List(<<"dcoilwtico", "onpromotion">>)]
Without(params, key) == [k \in DOMAIN params \ {key} |-> params[k]]
BatchParams ==
    {DefaultParams, ReversedParams, Without(DefaultParams, "target")}
    \cup {[DefaultParams EXCEPT ![key] = None] : key \in DOMAIN DefaultParams}

NoFile == [present |-> FALSE, text |-> <<>>]
TextFile(text) == [present |-> TRUE, text |-> text]
BatchEntries ==
    {NoFile, TextFile(<<"{", "name">>)} \cup {TextFile(json_dumps(p)) : p \in BatchParams}

\* the project directory with the params files of the entries
RECURSIVE BatchDir(_, _)
BatchDir(entries, k) ==
    IF k > Len(entries) THEN (<<>> :> Dir) @@ (get_proj_dir :> Dir)
    ELSE (IF entries[k].present
          THEN (join(get_proj_dir, BatchFiles[k]) :> File("", entries[k].text))
          ELSE <<>>) @@ BatchDir(entries, k + 1)

InitBatch ==
    /\ \E len \in 1..MaxBatch : \E entries \in [1..len -> BatchEntries] :
          /\ fs = BatchDir(entries, 1)
          /\ \E e \in Executions :
                pc = [at |-> "start", exec |-> e, k |-> 1, entries |-> entries,
                      outcomes |-> <<>>]
    /\ last = NoOp
    /\ pre = fs

\* lines 156-172: the logs directory, the log file, the mapping is read
BatchStart ==
    /\ pc.at = "start"
    /\ LET r == train_prelude(fs)
       IN  /\ fs' = r.fs
           /\ pc' = [pc EXCEPT !.at = IF r.err # "none" THEN "raised" ELSE "loop"]
    /\ UNCHANGED <<last, pre>>

\* one pass of the loop
BatchEntry(n) ==
    /\ pc.at = "loop"
    /\ pc.k <= Len(pc.entries)
    /\ LET r == main_entry(fs, pc.exec, BatchFiles[pc.k], n)
       IN  /\ fs' = r.fs
           /\ pc' = [pc EXCEPT
                        !.at = IF r.kind = "exception" THEN "raised" ELSE "loop",
                        !.k = @ + 1,
                        !.outcomes = Append(@, [kind |-> r.kind, what |-> r.what, id |-> r.id])]
    /\ UNCHANGED <<last, pre>>

\* the mapping is exhausted: main returns
BatchReturn ==
    /\ pc.at = "loop"
    /\ pc.k > Len(pc.entries)
    /\ pc' = [pc EXCEPT !.at = "returned"]
    /\ UNCHANGED <<fs, last, pre>>

NextBatch ==
    \/ BatchStart
    \/ \E n \in TrainStages : BatchEntry(n)
    \/ BatchReturn

SpecBatch == InitBatch /\ [][NextBatch]_vars

(***************************************************************************)
(* train.main run again and again on the same mapping, each run after the  *)
(* one before it returned or raised.  pc.earlier keeps the outcomes of the *)
(* runs before the current one.  A run starts only while its entries can   *)
(* all be given an id not yet in use, and there are MaxRuns runs at most.  *)
(***************************************************************************)
MaxRuns == 2

InitRuns ==
    /\ \E len \in 1..MaxBatch : \E entries \in [1..len -> BatchEntries] :
          /\ fs = BatchDir(entries, 1)
          /\ \E e \in Executions :
                pc = [at |-> "start", exec |-> e, k |-> 1, entries |-> entries,
                      outcomes |-> <<>>, earlier |-> <<>>, run |-> 1]
    /\ last = NoOp
    /\ pre = fs

IdsInUse(f) == {k \in 1..Len(IdNames) : Used(f, IdNames[k])}

\* main is called again
BatchAgain ==
    /\ pc.at \in {"returned", "raised"}
    /\ pc.run < MaxRuns
    /\ Cardinality(IdsInUse(fs)) + Len(pc.entries) <= Len(IdNames)
    /\ pc' = [pc EXCEPT !.at = "start", !.k = 1, !.outcomes = <<>>,
                        !.earlier = @ \o pc.outcomes, !.run = @ + 1]
    /\ UNCHANGED <<fs, last, pre>>

NextRuns ==
    \/ BatchStart
    \/ \E n \in TrainStages : BatchEntry(n)
    \/ BatchReturn
    \/ BatchAgain

SpecRuns == InitRuns /\ [][NextRuns]_vars

(***************************************************************************)
(* The queries of a caller on what a training run and a deploy left: the   *)
(* run wrote the first files of its experiment (all of them when it is     *)
(* complete) for one of the valid params objects, and the experiment was   *)
(* deployed or not.  The caller asks about that experiment or about an id  *)
(* that names nothing.                                                     *)
(***************************************************************************)
ValidParams == {DefaultParams, ReversedParams}

InitQueries ==
    /\ \E e \in Executions, params \in ValidParams, n \in TrainStages,
          deployed \in {"no"} \cup Descriptions :
          LET logged == train_prelude((<<>> :> Dir) @@ (get_proj_dir :> Dir))
              experiment_uid == uuid4(logged.fs)
              trained == run_experiment(logged.fs, e, experiment_uid, params, n)
          IN  /\ fs = IF deployed = "no" THEN trained.fs
                      ELSE deploy_main(trained.fs, e, experiment_uid, deployed,
                                       ListedOrder(trained.fs, e, experiment_uid)).fs
              /\ pc = [exec |-> e, id |-> experiment_uid, params |-> params, stage |-> n,
                       deployed |-> deployed]
    /\ last = NoOp
    /\ pre = fs

GetExperimentReport(e, i) ==
    /\ LET r == get_experiment_report(fs, e, i)
       IN  /\ fs' = r.fs
           /\ last' = Query("get_experiment_report", e, i, r)
    /\ UNCHANGED <<pre, pc>>

GetExperimentPredictions(e, i) ==
    /\ LET r == get_experiment_predictions(fs, e, i)
       IN  /\ fs' = r.fs
           /\ last' = Query("get_experiment_predictions", e, i, r)
    /\ UNCHANGED <<pre, pc>>

GetDeployedModelParams ==
    /\ LET r == get_deployed_model_params(fs)
       IN  /\ fs' = r.fs
           /\ last' = Query("get_deployed_model_params", "", "", r)
    /\ UNCHANGED <<pre, pc>>

GetDeployedModelReport ==
    /\ LET r == get_deployed_model_report(fs)
       IN  /\ fs' = r.fs
           /\ last' = Query("get_deployed_model_report", "", "", r)
    /\ UNCHANGED <<pre, pc>>

GetDeployedPredictions ==
    /\ LET r == get_deployed_predictions(fs)
       IN  /\ fs' = r.fs
           /\ last' = Query("get_deployed_predictions", "", "", r)
    /\ UNCHANGED <<pre, pc>>

Predict(start_date, end_date) ==
    /\ LET r == predict(fs, start_date, end_date)
       IN  /\ fs' = r.fs
           /\ last' = [Query("predict", "", "", r) EXCEPT
                          !.start_date = start_date, !.end_date = end_date]
    /\ UNCHANGED <<pre, pc>>

GetModelExecutions(order) ==
    /\ LET r == get_model_executions(fs, order)
       IN  /\ fs' = r.fs
           /\ last' = Query("get_model_executions", "", "", r)
    /\ UNCHANGED <<pre, pc>>

GetModelExperiments(e, order) ==
    /\ LET r == get_model_experiments(fs, e, order)
       IN  /\ fs' = r.fs
           /\ last' = Query("get_model_experiments", e, "", r)
    /\ UNCHANGED <<pre, pc>>

DateSet == {Dates[k] : k \in 1..Len(Dates)}

\* the execution names a caller of a listing passes: one that has
\* experiments and one that names nothing
ListedExecutions == {ExecutionNames[k] : k \in 1..Len(ExecutionNames)}

NextQueries ==
    \/ \E e \in Executions, i \in CallerIds(fs) : GetExperimentParams(e, i)
    \/ \E e \in Executions, i \in CallerIds(fs) : GetExperimentReport(e, i)
    \/ \E e \in Executions, i \in CallerIds(fs) : GetExperimentPredictions(e, i)
    \/ GetDeployedModelParams
    \/ GetDeployedModelReport
    \/ GetDeployedPredictions
    \/ GetDeployedDesc
    \/ \E start_date \in DateSet, end_date \in DateSet \cup {NoDate} :
            Predict(start_date, end_date)
    \/ \E order \in DirOrders(fs, join(get_proj_dir, "experiments")) : GetModelExecutions(order)
    \/ \E e \in ListedExecutions :
          \E order \in DirOrders(fs, join(join(get_proj_dir, "experiments"), e)) :
             GetModelExperiments(e, order)

SpecQueries == InitQueries /\ [][NextQueries]_vars

(***************************************************************************)
(* The deployed slot and everyone who could write it: a training run, the  *)
(* deploys and the queries of the callers, as three processes on one       *)
(* project directory, which starts as it is before the first run or as a  *)
(* complete run and the deploy of its experiment left it.  Nothing makes   *)
(* one wait for another: a step is one call on the filesystem, and the     *)
(* steps of the three interleave in every way.  A query that reads at one  *)
(* moment is one step.  MaxCalls calls are made.                           *)
(***************************************************************************)
InitSlot ==
    /\ \E e \in Executions, deployed \in {"no"} \cup Descriptions :
          LET empty == (<<>> :> Dir) @@ (get_proj_dir :> Dir)
              logged == train_prelude(empty)
              experiment_uid == uuid4(logged.fs)
              trained == run_experiment(logged.fs, e, experiment_uid, DefaultParams,
                                        Len(train_writes("", "")))
          IN  fs = IF deployed = "no" THEN empty
                   ELSE deploy_main(trained.fs, e, experiment_uid, deployed,
                                    ListedOrder(trained.fs, e, experiment_uid)).fs
    /\ last = NoOp
    /\ pre = fs
    /\ pc = [train |-> Idle, deploy |-> Idle, query |-> QueryIdle, calls |-> 0]

\* a call is made; a caller passes any id, one that names an experiment,
\* one that names nothing, or one a run has drawn and not yet written
SlotStarts ==
    \/ \E e \in Executions : TrainStart(e)
    \/ \E e \in Executions, i \in Ids, d \in Descriptions : DeployStart(e, i, d)
    \/ \E op \in ExperimentQueries, e \in Executions, i \in Ids : QueryStart(op, e, i)
    \/ QueryDeployedPredictions
    \/ \E start_date \in DateSet, end_date \in DateSet \cup {NoDate} :
            QueryPredict(start_date, end_date)

\* the steps of the training run after its first
TrainSteps ==
    \/ TrainLogsMkdir
    \/ TrainLogFile
    \/ \E u \in Ids : TrainUuid(u)
    \/ SetupCheck("train")
    \/ SetupMkdir("train")
    \/ TrainOpen
    \/ TrainWrite
    \/ TrainRaise

\* a query that reads at one moment is called and returns r
SlotRead(op, e, r) ==
    /\ Payable
    /\ pc' = Paid
    /\ last' = Query(op, e, "", r)
    /\ UNCHANGED <<fs, pre>>

\* the steps of the queries after the call, and the queries that read at
\* one moment
QuerySteps ==
    \/ SetupCheck("query")
    \/ SetupMkdir("query")
    \/ QueryRead
    \/ QueryLoad
    \/ SlotRead("get_deployed_model_params", "", get_deployed_model_params(fs))
    \/ SlotRead("get_deployed_model_report", "", get_deployed_model_report(fs))
    \/ SlotRead("get_deployed_desc", "", get_deployed_desc(fs))
    \/ \E order \in DirOrders(fs, join(get_proj_dir, "experiments")) :
          SlotRead("get_model_executions", "", get_model_executions(fs, order))
    \/ \E e \in ListedExecutions :
          \E order \in DirOrders(fs, join(join(get_proj_dir, "experiments"), e)) :
             SlotRead("get_model_experiments", e, get_model_experiments(fs, e, order))

NextSlot ==
    \/ SlotStarts
    \/ TrainSteps
    \/ SetupCheck("deploy")
    \/ SetupMkdir("deploy")
    \/ DeploySteps
    \/ QuerySteps

SpecSlot == InitSlot /\ [][NextSlot]_vars

(***************************************************************************)
(* Queries on the deployed slot while a deploy goes on.  Two experiments   *)
(* were run, each up to some stage, and the first was deployed (or both    *)
(* were run to the end and nothing is deployed yet); then the caller       *)
(* deploys either of them, step by step as in the race above, while        *)
(* the deployed-model service answers queries.  get_deployed_predictions   *)
(* reads the slot at three moments: the params file, the model for the     *)
(* train frame and the model again for the validation frame; a deploy can  *)
(* take steps, or run whole, between any two.  The second experiment was   *)
(* trained on other dates, which the predictions show.                     *)
(***************************************************************************)
LaterParams ==
    [DefaultParams EXCEPT !["model_params"] =
        Dict(<<"train_start_dt", "2017-02-01", "train_end_dt", "2017-07-15">>)]

InitTorn ==
    /\ \E e \in Executions, na \in TrainStages, nb \in TrainStages, deployed \in BOOLEAN :
          /\ ~deployed => (na = Len(train_writes("", "")) /\ nb = na)
          /\ LET logged == train_prelude((<<>> :> Dir) @@ (get_proj_dir :> Dir))
                 first == run_experiment(logged.fs, e, uuid4(logged.fs), DefaultParams, na)
                 second == run_experiment(first.fs, e, uuid4(first.fs), LaterParams, nb)
             IN  fs = IF deployed
                      THEN deploy_main(second.fs, e, uuid4(logged.fs), "desc1",
                                       ListedOrder(second.fs, e, uuid4(logged.fs))).fs
                      ELSE second.fs
    /\ last = NoOp
    /\ pre = fs
    /\ pc = [train |-> Ended, deploy |-> Idle, query |-> QueryIdle]

ReadDeployedParams ==
    /\ LET r == get_deployed_model_params(fs)
       IN  /\ fs' = r.fs
           /\ last' = Query("get_deployed_model_params", "", "", r)
    /\ UNCHANGED <<pre, pc>>

\* deploy.main lines 35-42 where every directory of the layout is there:
\* the nine checks of setup find them, and copy_files is entered.  A query
\* that is going on has a deploy beside it from here.
DeployFound(e, i, d) ==
    /\ pc.deploy.at = "idle"
    /\ \A k \in 1..Len(SetupDirs(e, i)) : exists(fs, SetupDirs(e, i)[k])
    /\ pc' = [pc EXCEPT !.deploy =
                AfterSetup("deploy", [Idle EXCEPT !.exec = e, !.id = i, !.desc = d]),
                        !.query.overlap = pc.query.at # "idle"]
    /\ UNCHANGED <<fs, last, pre>>

NextTorn ==
    \/ \E e \in Executions, i \in {x \in Ids : Used(fs, x)} : DeployFound(e, i, "desc2")
    \/ DeploySteps
    \/ ReadDeployedParams
    \/ QueryDeployedPredictions
    \/ QueryLoad

SpecTorn == InitTorn /\ [][NextTorn]_vars

(***************************************************************************)
(* One experiment of train.main statement by statement, lines 199-234 with *)
(* train_model and validate_model: the state of the run is the statement   *)
(* it is at, the model pycaret_model holds in memory, and the model each   *)
(* of the two prediction frames was made with.  Any statement after setup  *)
(* calls into the data, the trainer, the predictor, the metrics, the plots *)
(* or the filesystem and can raise; nothing in main catches it.  The run   *)
(* starts on what an earlier experiment and a deploy of it left.           *)
(***************************************************************************)
RunSteps ==
    <<"setup", "get_modeling_data", "setup_experiment", "final_model", "save_model",
      "train_predictions", "train_metrics", "train_plot",
      "valid_predictions", "valid_metrics", "valid_plot", "to_csv", "write_params">>

StepIndex(at) == CHOOSE k \in 1..Len(RunSteps) : RunSteps[k] = at

NoModel == [from |-> "none", of |-> ""]

\* the k-th file of the experiment is written
write_nth(f, r, k) ==
    LET w == experiment_writes(r.exec, r.id, r.params)[k]
    IN  write_file(f, w.path, r.id, w.body)

\* the path save_model writes and load_model reads
model_file(r) == experiment_writes(r.exec, r.id, r.params)[2].path

\* PycaretModel.load_model(modelpath): [err, model]
load_model(f, modelpath) ==
    IF ~isfile(f, modelpath) THEN [err |-> "FileNotFoundError", model |-> NoModel]
    ELSE IF f[modelpath].body = Empty(modelpath) THEN [err |-> "EOFError", model |-> NoModel]
    ELSE [err |-> "none", model |-> [from |-> "file", of |-> f[modelpath].origin]]

\* the predictions of train_model made with the model pycaret_model holds
train_predictions_in_memory(f, r) ==
    [err |-> "none", fs |-> f, run |-> [r EXCEPT !.train_predictions = r.model]]

\* train_model lines 93-96: Inference(train_df, model_path, ...) loads the
\* model from model_path and predicts with it
train_predictions(f, r) ==
    LET loaded == load_model(f, model_file(r))
    IN  [err |-> loaded.err, fs |-> f,
         run |-> [r EXCEPT !.train_predictions = loaded.model]]

\* validate_model lines 127-130
valid_predictions(f, r) ==
    LET loaded == load_model(f, model_file(r))
    IN  [err |-> loaded.err, fs |-> f,
         run |-> [r EXCEPT !.valid_predictions = loaded.model]]

\* the statement the run is at: [err, fs, run]
run_step(f, r) ==
    LET experiment_uid == uuid4(f)
        s == setup(f, r.exec, experiment_uid)
        wrote(k) == [err |-> write_nth(f, r, k).err, fs |-> write_nth(f, r, k).fs, run |-> r]
    IN  CASE r.at = "setup" -> [err |-> s.err, fs |-> s.fs, run |-> [r EXCEPT !.id = experiment_uid]]
          [] r.at = "get_modeling_data" -> [err |-> "none", fs |-> f, run |-> r]
          [] r.at = "setup_experiment" -> wrote(1)
          [] r.at = "final_model" ->
                [err |-> "none", fs |-> f,
                 run |-> [r EXCEPT !.model = [from |-> "memory", of |-> r.id]]]
          [] r.at = "save_model" -> wrote(2)
          [] r.at = "train_predictions" -> train_predictions(f, r)
          [] r.at = "train_metrics" -> [err |-> "none", fs |-> f, run |-> r]
          [] r.at = "train_plot" -> wrote(3)
          [] r.at = "valid_predictions" -> valid_predictions(f, r)
          [] r.at = "valid_metrics" -> [err |-> "none", fs |-> f, run |-> r]
          [] r.at = "valid_plot" -> wrote(4)
          [] r.at = "to_csv" -> wrote(5)
          [] r.at = "write_params" -> wrote(6)

InitExperiment ==
    /\ \E e \in Executions, earlier \in ValidParams, n \in TrainStages,
          deployed \in {"no"} \cup Descriptions, params \in ValidParams :
          LET logged == train_prelude((<<>> :> Dir) @@ (get_proj_dir :> Dir))
              experiment_uid == uuid4(logged.fs)
              trained == run_experiment(logged.fs, e, experiment_uid, earlier, n)
          IN  /\ fs = IF deployed = "no" THEN trained.fs
                      ELSE deploy_main(trained.fs, e, experiment_uid, deployed,
                                       ListedOrder(trained.fs, e, experiment_uid)).fs
              /\ pc = [at |-> "setup", exec |-> e, id |-> "", params |-> params,
                       model |-> NoModel, train_predictions |-> NoModel,
                       valid_predictions |-> NoModel, failed |-> "", err |-> "none"]
    /\ last = NoOp
    /\ pre = fs

\* the statement runs; an exception of it leaves main
RunStep ==
    /\ pc.at \notin {"complete", "raised"}
    /\ LET r == run_step(fs, pc)
           k == StepIndex(pc.at)
       IN  /\ fs' = r.fs
           /\ pc' = IF r.err # "none"
                    THEN [r.run EXCEPT !.at = "raised", !.failed = pc.at, !.err = r.err]
                    ELSE [r.run EXCEPT !.at = IF k = Len(RunSteps) THEN "complete"
                                              ELSE RunSteps[k + 1]]
    /\ UNCHANGED <<last, pre>>

\* what the statement calls raises, before the statement has written
RunRaise ==
    /\ pc.at \notin {"setup", "complete", "raised"}
    /\ pc' = [pc EXCEPT !.at = "raised", !.failed = pc.at, !.err = "Exception"]
    /\ UNCHANGED <<fs, last, pre>>

NextExperiment ==
    \/ RunStep
    \/ RunRaise

SpecExperiment == InitExperiment /\ [][NextExperiment]_vars

(***************************************************************************)
(* Vocabulary of the properties.  The layout is written out here, not      *)
(* taken from setup, so that the properties are about what setup returns.  *)
(***************************************************************************)
ExperimentDir(e, i) == <<"proj", "experiments", e, i>>
LogsDir(e, i) == <<"proj", "logs", e, i>>
DeployedDir == <<"proj", "deployed_models">>
DescFile == <<"proj", "deployed_models", "deployment_desc.txt">>

IsUnder(p, d) == Len(p) > Len(d) /\ SubSeq(p, 1, Len(d)) = d
Rebase(p, from, to) == to \o SubSeq(p, Len(from) + 1, Len(p))
FilesUnder(f, d) == {p \in DOMAIN f : IsUnder(p, d) /\ f[p].kind = "file"}
Tree(f, d) == [p \in {q \in DOMAIN f : IsUnder(q, d)} |-> f[p]]
Exceptions ==
    {"FileExistsError", "FileNotFoundError", "NotADirectoryError", "IsADirectoryError"}

\* the experiment artifacts in the deployed slot: every file but the description
SlotArtifacts(f) == FilesUnder(f, DeployedDir) \ {DescFile}

\* C1: whenever deploy reports success, every file anywhere in the source
\* experiment tree has a same-named file at the same relative path in the
\* deployed slot.
C1_PromotionComplete ==
    (last.op = "deploy" /\ last.result = Successful) =>
        \A p \in FilesUnder(fs, ExperimentDir(last.exec, last.id)) :
            isfile(fs, Rebase(p, ExperimentDir(last.exec, last.id), DeployedDir))

\* a successful deploy of an experiment that holds a file in a subdirectory
C1_Witness ==
    /\ last.op = "deploy" /\ last.result = Successful
    /\ isfile(fs, ExperimentDir(last.exec, last.id) \o <<"models", "model.pkl">>)
    /\ isfile(fs, ExperimentDir(last.exec, last.id) \o <<"experiment_params.json">>)

\* C3: a deploy that repeats the deploy before it (same execution, id and
\* description) leaves the deployed slot as the first left it, and both
\* report success.
C3_DeployIdempotent ==
    [][(last'.op = "deploy" /\ last'.again) =>
           /\ last.result = Successful
           /\ last'.result = Successful
           /\ Tree(fs', DeployedDir) = Tree(fs, DeployedDir)]_vars

\* the second of two equal deploys of an experiment that holds a model
C3_Witness ==
    /\ last.op = "deploy" /\ last.again /\ last.result = Successful
    /\ isfile(fs, ExperimentDir(last.exec, last.id) \o <<"models", "model.pkl">>)
    /\ isfile(fs, DescFile)

\* C5: between operations all experiment artifacts in the deployed slot
\* come from one experiment, and after a successful deploy from the one
\* just deployed.
C5_SlotHoldsOneExperiment ==
    /\ \A p, q \in SlotArtifacts(fs) : fs[p].origin = fs[q].origin
    /\ (last.op = "deploy" /\ last.result = Successful) =>
           \A p \in SlotArtifacts(fs) : fs[p].origin = last.id

\* the nine directories of the layout for one execution and id
LayoutDirs(e, i) ==
    {<<"proj", "experiments">>, <<"proj", "experiments", e>>, ExperimentDir(e, i),
     ExperimentDir(e, i) \o <<"models">>, ExperimentDir(e, i) \o <<"plots">>,
     <<"proj", "logs">>, <<"proj", "logs", e>>, LogsDir(e, i), DeployedDir}

\* C7: in every filesystem state the resolver returns, for every execution
\* and id, experimentDir = root/experiments/execution/id, its models and
\* plots below it, logsDir = root/logs/execution/id and the one
\* deployedDir = root/deployed_models; so two calls return the same bundle
\* whatever happened to the filesystem in between.
C7_ResolveLayout ==
    \A k \in 1..Len(ExecutionNames), i \in CallerIds(fs) :
        LET e == ExecutionNames[k]
            r == setup(fs, e, i)
        IN  /\ r.err = "none"
            /\ r.paths[1] = <<"proj", "experiments", e, i>>
            /\ r.paths[2] = <<"proj", "experiments", e, i, "models">>
            /\ r.paths[3] = <<"proj", "experiments", e, i, "plots">>
            /\ r.paths[4] = <<"proj", "logs", e, i>>
            /\ r.paths[5] = <<"proj", "deployed_models">>

\* a caller resolved the same bundle twice, with files on disk
C7_Witness ==
    /\ last.op = "get_experiment_params" /\ last.again
    /\ FilesUnder(fs, ExperimentDir(last.exec, last.id)) # {}

\* C8 as stated: resolving the bundle leaves the filesystem as it was.
C8_ResolveHasNoSideEffects ==
    \A e \in Executions, i \in CallerIds(fs) : setup(fs, e, i).fs = fs

\* C8 as amended: resolving the bundle creates those of the nine layout
\* directories that are missing and does nothing else: every entry that
\* existed is unchanged, every new entry is an empty layout directory, and
\* with the nine present the filesystem is as before.
C8_ResolveOnlyCreatesLayoutDirs ==
    \A e \in Executions, i \in CallerIds(fs) :
        LET r == setup(fs, e, i)
        IN  /\ r.err = "none"
            /\ \A p \in DOMAIN fs : p \in DOMAIN r.fs /\ r.fs[p] = fs[p]
            /\ \A p \in DOMAIN r.fs \ DOMAIN fs : p \in LayoutDirs(e, i) /\ r.fs[p] = Dir
            /\ LayoutDirs(e, i) \subseteq DOMAIN r.fs
            /\ (LayoutDirs(e, i) \subseteq DOMAIN fs) => r.fs = fs

\* a query resolved the bundle of an id that named nothing, next to an
\* experiment that has files: its directories are there and empty
C8_Witness ==
    /\ last.op = "get_experiment_params" /\ last.result = "FileNotFoundError"
    /\ ~last.again
    /\ LayoutDirs(last.exec, last.id) \subseteq DOMAIN fs
    /\ FilesUnder(fs, ExperimentDir(last.exec, last.id)) = {}
    /\ FilesUnder(fs, <<"proj", "experiments">>) # {}

\* C9: provisioning the same execution and id a second time raises nothing
\* and leaves every directory and file as the first call left it.
C9_ProvisionIdempotent ==
    \A e \in Executions, i \in CallerIds(fs) :
        LET first == setup(fs, e, i)
            second == setup(first.fs, e, i)
        IN  /\ first.err = "none"
            /\ second.err = "none"
            /\ second.fs = first.fs

\* a caller provisioned the same experiment twice in a row
C9_Witness ==
    /\ last.op = "get_experiment_params" /\ last.again
    /\ last.result \notin Exceptions
    /\ LayoutDirs(last.exec, last.id) \subseteq DOMAIN fs

\* C2: when validate_deploy has run and some file of the source tree, at
\* any depth, has no same-named entry at the same place of the destination,
\* it returned False; and it looks at existence alone: with every entry of
\* the source tree present in the destination it returned True, whatever
\* the contents.
C2_ValidateRejectsMissing ==
    last.op = "validate_deploy" =>
        /\ (\E p \in FilesUnder(fs, TreeSrc) : ~exists(fs, Rebase(p, TreeSrc, TreeDst)))
               => last.result = "False"
        /\ (/\ exists(fs, TreeDst)
            /\ \A p \in DOMAIN fs : IsUnder(p, TreeSrc) => exists(fs, Rebase(p, TreeSrc, TreeDst)))
               => last.result = "True"

\* validation ran on a destination that has the top-level file of the
\* source but lacks the file in its models directory
C2_Witness ==
    /\ last.op = "validate_deploy" /\ last.result = "False"
    /\ isfile(fs, join(TreeSrc, "experiment_params.json"))
    /\ isfile(fs, join(TreeDst, "experiment_params.json"))
    /\ isfile(fs, join(join(TreeSrc, "models"), "model.pkl"))
    /\ isdir(fs, join(TreeDst, "models"))
    /\ ~exists(fs, join(join(TreeDst, "models"), "model.pkl"))

\* C4: after copy_files returned, every destination file whose relative
\* path is a file of the source holds the source's content, every
\* destination entry whose relative path is not in the source is as it
\* was, nothing that was in the destination is gone, and the source is
\* as it was.
C4_CopyMerges ==
    (last.op = "copy_files" /\ last.result = "none") =>
        /\ \A p \in DOMAIN pre : p \in DOMAIN fs
        /\ \A p \in FilesUnder(pre, TreeDst) :
              LET s == Rebase(p, TreeDst, TreeSrc)
              IN  /\ isfile(pre, s) => fs[p] = pre[s]
                  /\ ~exists(pre, s) => fs[p] = pre[p]
        /\ Tree(fs, TreeSrc) = Tree(pre, TreeSrc)

\* a copy overwrote a destination file that differed from the source's and
\* kept a destination file the source does not have
C4_Witness ==
    /\ last.op = "copy_files" /\ last.result = "none"
    /\ isfile(pre, join(join(TreeSrc, "models"), "model.pkl"))
    /\ isfile(pre, join(join(TreeDst, "models"), "model.pkl"))
    /\ pre[join(join(TreeDst, "models"), "model.pkl")] # pre[join(join(TreeSrc, "models"), "model.pkl")]
    /\ fs[join(join(TreeDst, "models"), "model.pkl")] = pre[join(join(TreeSrc, "models"), "model.pkl")]
    /\ isfile(pre, join(TreeDst, "notes.txt"))
    /\ isfile(fs, join(TreeDst, "notes.txt"))
    /\ ~exists(pre, join(TreeSrc, "plots"))
    /\ isfile(fs, join(join(TreeDst, "plots"), "train_plot.png"))

\* C10: two provisioning calls for one execution and id, interleaved at
\* each existence check and each directory creation, both return without
\* an error, and then the directories are those one call leaves.
C10_ConcurrentProvisionSafe ==
    /\ \A p \in Provisioners : pc[p].at # "raised"
    /\ (\A p \in Provisioners : pc[p].at = "returned") =>
           \E p \in Provisioners : fs = setup(pre, pc[p].exec, pc[p].id).fs

\* what a path holds, or that it holds nothing
Entry(f, p) == IF p \in DOMAIN f THEN f[p] ELSE [kind |-> "absent", origin |-> "", body |-> ""]

\* C6: deploy writes deployment_desc.txt exactly when the validation of
\* its copy passed: after a passed validation it opens the file, which
\* empties it, writes the description and returns success; a failed
\* validation returns the failure message at once, with the description
\* file and every copied file as they were; and no other step of the
\* deploy touches the description file.
C6_DescriptionIffValidated ==
    [][LET d == pc.deploy
           valid == validate_deploy(fs, ExperimentDir(d.exec, d.id), DeployedDir)
           others_kept == \A p \in DOMAIN fs :
                              p # DescFile => (p \in DOMAIN fs' /\ fs'[p] = fs[p])
       IN  /\ (d.at = "validate" /\ pc'.deploy # d) =>
                 IF valid
                 THEN pc'.deploy.at = "open" /\ fs' = fs /\ last' = last
                 ELSE /\ pc'.deploy.at = "idle"
                      /\ last'.op = "deploy" /\ last'.result = Failed
                      /\ fs' = fs
           /\ (d.at = "open" /\ pc'.deploy # d) =>
                 /\ pc'.deploy.at = "write"
                 /\ isfile(fs', DescFile) /\ fs'[DescFile].body = ""
                 /\ others_kept
                 /\ last' = last
           /\ (d.at = "write" /\ pc'.deploy # d) =>
                 /\ isfile(fs', DescFile) /\ fs'[DescFile].body = d.desc
                 /\ others_kept
                 /\ last'.op = "deploy" /\ last'.result = Successful
           /\ (Entry(fs', DescFile) # Entry(fs, DescFile)) => d.at \in {"open", "write"}
           /\ (pc'.deploy # d /\ last' # last /\ last'.result = Successful) => d.at = "write"
      ]_vars

\* a deploy returned the failure message; the description of the deploy
\* before it and the model it had copied are still in the slot
C6_Witness ==
    /\ last.op = "deploy" /\ last.result = Failed
    /\ isfile(fs, DescFile) /\ fs[DescFile].body \notin {"", last.desc}
    /\ isfile(fs, DeployedDir \o <<"models", "model.pkl">>)
    /\ ~validate_deploy(fs, ExperimentDir(last.exec, last.id), DeployedDir)

(***************************************************************************)
(* The batch run.                                                          *)
(***************************************************************************)
SevenKeys ==
    {"name", "description", "model_type", "id", "target", "features", "model_params"}

\* every one of the seven keys is there and is not null
AllSevenNonNull(params) ==
    \A key \in SevenKeys : key \in DOMAIN params /\ params[key] # <<"None">>

\* params objects with any of the seven keys null, and with one key absent
ProbeParams ==
    {[key \in SevenKeys |-> IF key \in nulls THEN <<"None">> ELSE DefaultParams[key]] :
        nulls \in SUBSET SevenKeys}
    \cup {[key \in SevenKeys \ {gone} |-> DefaultParams[key]] : gone \in SevenKeys}

\* entry j of the batch holds the JSON text of a params object
Parsed(j) == pc.entries[j].present /\ json_load(pc.entries[j].text).err = "none"
ParamsOf(j) == json_load(pc.entries[j].text).obj

\* the six files of a complete experiment are there, the params file with
\* the text of the entry
RecordComplete(e, i, text) ==
    /\ isfile(fs, LogsDir(e, i) \o <<"pycaret_logs.csv">>)
    /\ isfile(fs, ExperimentDir(e, i) \o <<"models", "model.pkl">>)
    /\ isfile(fs, ExperimentDir(e, i) \o <<"plots", "train_plot.png">>)
    /\ isfile(fs, ExperimentDir(e, i) \o <<"plots", "valid_plot.png">>)
    /\ isfile(fs, ExperimentDir(e, i) \o <<"model_metrics.csv">>)
    /\ isfile(fs, ExperimentDir(e, i) \o <<"experiment_params.json">>)
    /\ fs[ExperimentDir(e, i) \o <<"experiment_params.json">>].body = text

\* C11: validate_params accepts a params object exactly when all seven
\* keys are non-null; in a batch every entry with an invalid params object
\* is skipped (no experiment is made for it and the loop goes on), every
\* valid one is run, and when no step of an experiment raised, every valid
\* entry, before or after an invalid one, has its complete record.
C11_InvalidParamsSkipped ==
    /\ \A params \in ProbeParams : validate_params(params) <=> AllSevenNonNull(params)
    /\ \A j \in 1..Len(pc.outcomes) :
          Parsed(j) =>
              IF AllSevenNonNull(ParamsOf(j))
              THEN pc.outcomes[j].kind # "skipped" /\ pc.outcomes[j].id # ""
              ELSE /\ pc.outcomes[j].kind = "skipped"
                   /\ pc.outcomes[j].what = "NotValidParamsException"
                   /\ pc.k > j
                   /\ (pc.at = "raised" => j < Len(pc.outcomes))
    /\ pc.at = "returned" =>
          /\ Len(pc.outcomes) = Len(pc.entries)
          /\ \A j \in 1..Len(pc.entries) :
                (Parsed(j) /\ AllSevenNonNull(ParamsOf(j))) =>
                    /\ pc.outcomes[j].kind = "complete"
                    /\ RecordComplete(pc.exec, pc.outcomes[j].id, pc.entries[j].text)
    /\ LET made == {j \in 1..Len(pc.outcomes) : pc.outcomes[j].id # ""}
       IN  \A i \in {IdNames[k] : k \in 1..Len(IdNames)} :
              Used(fs, i) => \E j \in made : pc.outcomes[j].id = i

\* a batch returned whose first entry lacks the target key and whose
\* second entry is valid and has its record
C11_Witness ==
    /\ pc.at = "returned"
    /\ Len(pc.entries) = 2
    /\ Parsed(1) /\ "target" \notin DOMAIN ParamsOf(1)
    /\ pc.outcomes[1].kind = "skipped"
    /\ pc.outcomes[2].kind = "complete"
    /\ RecordComplete(pc.exec, pc.outcomes[2].id, pc.entries[2].text)

\* C12: an entry whose params file is missing or is not JSON is skipped:
\* main is not left by an exception at it and the loop goes on to the
\* entries after it.
C12_BadFileSkipped ==
    \A j \in 1..Len(pc.outcomes) :
        ~Parsed(j) =>
            /\ pc.outcomes[j].kind = "skipped"
            /\ pc.k > j
            /\ (pc.at = "raised" => j < Len(pc.outcomes))

\* C13: an exception raised by a step of one experiment (provisioning,
\* data, training, prediction, metrics, persistence) aborts that experiment
\* alone: main is not left by it and the loop goes on to the next entry.
C13_ExperimentFailureContained ==
    \A j \in 1..Len(pc.outcomes) :
        (Parsed(j) /\ pc.outcomes[j].kind = "exception") =>
            (pc.at # "raised" \/ j < Len(pc.outcomes))

MetricsFile(e, i) == ExperimentDir(e, i) \o <<"model_metrics.csv">>
ParamsFile(e, i) == ExperimentDir(e, i) \o <<"experiment_params.json">>

\* C14: no experiment directory has model_metrics.csv or
\* experiment_params.json before a run, and either file appears in an
\* experiment directory only when that experiment's run opens it, after
\* train_model and validate_model have returned: the trainer's log, the
\* saved model and both plots (the last statement of each) are written in
\* full by then, and the params file is opened after the metrics file is
\* written.  A run that raised before that leaves neither file.
C14_RecordOnlyAfterTraining ==
    /\ \A e \in Executions, i \in Ids :
          ~exists(fs, MetricsFile(e, i)) /\ ~exists(fs, ParamsFile(e, i))
    /\ [][\A e \in Executions, i \in Ids :
            (\/ exists(fs', MetricsFile(e, i)) /\ ~exists(fs, MetricsFile(e, i))
             \/ exists(fs', ParamsFile(e, i)) /\ ~exists(fs, ParamsFile(e, i)))
            => /\ pc.train.at = "open" /\ pc.train.exec = e /\ pc.train.id = i
               /\ pc.train.n >= 4
               /\ \A p \in {LogsDir(e, i) \o <<"pycaret_logs.csv">>,
                            ExperimentDir(e, i) \o <<"models", "model.pkl">>,
                            ExperimentDir(e, i) \o <<"plots", "train_plot.png">>,
                            ExperimentDir(e, i) \o <<"plots", "valid_plot.png">>} :
                     isfile(fs, p) /\ fs[p].body # Empty(p)
               /\ (exists(fs', ParamsFile(e, i)) =>
                      /\ isfile(fs, MetricsFile(e, i))
                      /\ fs[MetricsFile(e, i)].body # Empty(MetricsFile(e, i)))
         ]_vars

\* a run has written its metrics file and not yet opened its params file,
\* while the deploys of the caller go on
C14_Witness ==
    /\ pc.train.at = "open" /\ pc.train.n = 5
    /\ isfile(fs, MetricsFile(pc.train.exec, pc.train.id))
    /\ ~exists(fs, ParamsFile(pc.train.exec, pc.train.id))
    /\ isfile(fs, DescFile)

(***************************************************************************)
(* The queries.                                                            *)
(***************************************************************************)
DeployedParamsFile == DeployedDir \o <<"experiment_params.json">>
DeployedMetricsFile == DeployedDir \o <<"model_metrics.csv">>

\* C15: a reporting operation (params, metrics report, predictions) on an
\* experiment directory without experiment_params.json returns none of the
\* experiment's data: it raises not-found or says not found and returns
\* nothing, also when model_metrics.csv is already written.
C15_IncompleteNotQueryable ==
    (/\ last.op \in {"get_experiment_params", "get_experiment_report",
                     "get_experiment_predictions"}
     /\ ~exists(fs, ParamsFile(last.exec, last.id)))
        => last.result \in {"FileNotFoundError", "None"} /\ last.value = <<"None">>

\* the six keys get_experiment_params reports
SixKeys == {"name", "description", "model_type", "id", "target", "features"}

\* C16 as stated: get_experiment_params on a complete experiment returns
\* the params object the run persisted, all seven keys with equal values.
C16_ParamsRoundTrip ==
    (/\ last.op = "get_experiment_params"
     /\ last.exec = pc.exec /\ last.id = pc.id
     /\ pc.stage = Len(train_writes(pc.exec, pc.id)))
        => last.result = "params" /\ last.value = pc.params

\* C16 as amended: get_experiment_params on a complete experiment returns
\* an object with the six keys name, description, model_type, id, target
\* and features, each with the value the persisted params object has, the
\* features in the same order; model_params is not in it.
C16_SixKeysRoundTrip ==
    (/\ last.op = "get_experiment_params"
     /\ last.exec = pc.exec /\ last.id = pc.id
     /\ pc.stage = Len(train_writes(pc.exec, pc.id)))
        => /\ last.result = "params"
           /\ DOMAIN last.value = SixKeys
           /\ \A key \in SixKeys : last.value[key] = pc.params[key]

\* the params of a complete experiment whose features are not in
\* alphabetical order were asked for
C16_Witness ==
    /\ last.op = "get_experiment_params" /\ last.result = "params"
    /\ last.exec = pc.exec /\ last.id = pc.id
    /\ pc.params["features"] = <<"list", "onpromotion", "dcoilwtico">>
    /\ last.value["features"] = <<"list", "onpromotion", "dcoilwtico">>

\* C17: get_experiment_params and get_deployed_model_params, asked where
\* experiment_params.json is absent, end in a not-found failure: they
\* return neither a params object nor nothing.
C17_ParamsNotFound ==
    /\ (last.op = "get_experiment_params" /\ ~exists(fs, ParamsFile(last.exec, last.id)))
          => last.result = "FileNotFoundError"
    /\ (last.op = "get_deployed_model_params" /\ ~exists(fs, DeployedParamsFile))
          => last.result = "FileNotFoundError"

\* C18: get_experiment_report and get_deployed_model_report, asked where
\* the directory exists and model_metrics.csv is absent, end in a not-found
\* failure: they return neither a report nor nothing.
C18_ReportNotFound ==
    /\ (/\ last.op = "get_experiment_report"
        /\ isdir(fs, ExperimentDir(last.exec, last.id))
        /\ ~exists(fs, MetricsFile(last.exec, last.id)))
          => last.result = "FileNotFoundError"
    /\ (/\ last.op = "get_deployed_model_report"
        /\ isdir(fs, DeployedDir)
        /\ ~exists(fs, DeployedMetricsFile))
          => last.result = "FileNotFoundError"

\* C20: on every deployed slot and for every start date, predict with no
\* end date returns what predict with the end date equal to the start date
\* returns: the same rows of the same window from the same model, or the
\* same nothing.
C20_PredictDefaultsEndToStart ==
    /\ \A start_date \in DateSet :
          LET open == predict(fs, start_date, NoDate)
              same == predict(fs, start_date, start_date)
          IN  /\ open.result = same.result
              /\ open.value = same.value
              /\ open.fs = same.fs
              /\ open.result = "predictions" =>
                    open.value[Len(open.value)] = start_date
    /\ (last.op = "predict" /\ last.end_date = NoDate) =>
          /\ last.result = predict(fs, last.start_date, last.start_date).result
          /\ last.value = predict(fs, last.start_date, last.start_date).value

\* predict was asked for the second date with no end date, on a slot that
\* holds a complete experiment
C20_Witness ==
    /\ last.op = "predict" /\ last.end_date = NoDate /\ last.start_date = Dates[2]
    /\ last.result = "predictions"
    /\ last.value[Len(last.value)] = Dates[2]
    /\ isfile(fs, DeployedParamsFile)

\* C19 as stated: get_deployed_desc fails with FileNotFoundError as long
\* as no deploy has returned success, and from then on returns the
\* description given to the most recent deploy that returned success: what
\* it returns changes only in the step in which a deploy returns success,
\* and then to that deploy's description.
C19_DescriptionOfLastSuccessfulDeploy ==
    /\ get_deployed_desc(fs).result = "FileNotFoundError"
    /\ [][LET before == get_deployed_desc(fs)
              after == get_deployed_desc(fs')
              succeeded == /\ pc.deploy.at = "write" /\ pc'.deploy # pc.deploy
                           /\ last'.op = "deploy" /\ last'.result = Successful
          IN  /\ IF succeeded
                 THEN after.result = "description" /\ after.value = <<"str", pc.deploy.desc>>
                 ELSE after.result = before.result /\ after.value = before.value
              /\ (last'.op = "get_deployed_desc" /\ pc' = pc) =>
                    last'.result = before.result /\ last'.value = before.value
         ]_vars

\* C19 as amended: get_deployed_desc fails with FileNotFoundError until a
\* deploy whose validation passed opens the description file; while a
\* deploy stands between opening the file and writing it, it returns the
\* empty string; in every other state it returns the description given to
\* the most recent deploy that returned success.  What it returns changes
\* in those two steps of a deploy only; a deploy that fails, a deploy at
\* any other step and a training run leave it as it was.
C19_DescriptionOutsideTheWrite ==
    /\ get_deployed_desc(fs).result = "FileNotFoundError"
    /\ [][LET before == get_deployed_desc(fs)
              after == get_deployed_desc(fs')
              opened == pc.deploy.at = "open" /\ pc'.deploy.at = "write"
              succeeded == /\ pc.deploy.at = "write" /\ pc'.deploy # pc.deploy
                           /\ last'.op = "deploy" /\ last'.result = Successful
          IN  /\ IF succeeded
                 THEN after.result = "description" /\ after.value = <<"str", pc.deploy.desc>>
                 ELSE IF opened
                 THEN after.result = "description" /\ after.value = <<"str", "">>
                 ELSE after.result = before.result /\ after.value = before.value
              /\ (last'.op = "get_deployed_desc" /\ pc' = pc) =>
                    last'.result = before.result /\ last'.value = before.value
         ]_vars

\* the description was read while a later deploy had opened the
\* description file and not yet written it: the empty string came back,
\* not the description of the deploy that succeeded before
C19_Witness ==
    /\ last.op = "get_deployed_desc" /\ last.result = "description"
    /\ last.value = <<"str", "">>
    /\ pc.deploy.at = "write"
    /\ isfile(fs, DeployedDir \o <<"models", "model.pkl">>)

\* the operations of the query facade
QueryOps ==
    {"get_model_executions", "get_model_experiments", "get_experiment_params",
     "get_experiment_report", "get_experiment_predictions",
     "get_deployed_model_params", "get_deployed_model_report",
     "get_deployed_predictions", "predict", "get_deployed_desc"}

\* the names a listing returned, as a set
Listed(r) == {r.value[k] : k \in 2..Len(r.value)}
ExperimentsListed(f, e) ==
    UNION {Listed(get_model_experiments(f, e, order)) :
              order \in DirOrders(f, <<"proj", "experiments", e>>)}

\* C21: every query is read-only: whatever its arguments, also an
\* execution name or an experiment id that names nothing, it leaves every
\* file and directory as it was, so a listing of the experiments taken
\* after it returns the set it returned before.
C21_QueriesReadOnly ==
    [][last'.op \in QueryOps =>
          /\ fs' = fs
          /\ \A e \in ListedExecutions :
                ExperimentsListed(fs', e) = ExperimentsListed(fs, e)]_vars

\* a step of the training run or of a query: every step is a step of one
\* of the three, and each step of a deploy moves the deploy on
TrainOrQueryStep == pc'.deploy = pc.deploy

\* C22 as stated: no step of a training run and no query creates, changes
\* or deletes anything at deployed_models, the directory itself included.
C22_OnlyPromoterTouchesSlot ==
    [][TrainOrQueryStep =>
          /\ Entry(fs', DeployedDir) = Entry(fs, DeployedDir)
          /\ Tree(fs', DeployedDir) = Tree(fs, DeployedDir)]_vars

\* C22 as amended: no step of a training run and no query creates,
\* changes or deletes anything inside deployed_models; all they do to the
\* slot is to create the directory deployed_models itself, empty, when it
\* is missing.
C22_OthersOnlyCreateSlotDir ==
    [][TrainOrQueryStep =>
          /\ Tree(fs', DeployedDir) = Tree(fs, DeployedDir)
          /\ exists(fs, DeployedDir) => Entry(fs', DeployedDir) = Entry(fs, DeployedDir)
          /\ ~exists(fs, DeployedDir) =>
                /\ Entry(fs', DeployedDir).kind \in {"absent", "dir"}
                /\ Tree(fs', DeployedDir) = <<>>]_vars

\* a training run has saved its model and goes on while the slot holds
\* what the deploy of another id left there, its directories and its
\* description: the model of the run is not in the slot
C22_Witness ==
    /\ pc.train.at = "open" /\ pc.train.n >= 3
    /\ isfile(fs, ExperimentDir(pc.train.exec, pc.train.id) \o <<"models", "model.pkl">>)
    /\ isfile(fs, DescFile)
    /\ isdir(fs, DeployedDir \o <<"models">>)
    /\ ~exists(fs, DeployedDir \o <<"models", "model.pkl">>)

\* the outcomes, over all runs so far, of the entries that were processed
Processed == SelectSeq(pc.earlier \o pc.outcomes, LAMBDA o : o.id # "")

\* C23: over any sequence of runs of the orchestrator every processed
\* entry gets an id that names nothing yet: no two processed entries have
\* the same id, every file in an experiment's directories was written by
\* the run of that experiment, and the step that processes an entry
\* leaves every file of the experiments before it as it was.
C23_FreshIdPerExperiment ==
    /\ [](/\ \A j, k \in 1..Len(Processed) : j # k => Processed[j].id # Processed[k].id
          /\ \A k \in 1..Len(IdNames) :
                \A p \in FilesUnder(fs, ExperimentDir(pc.exec, IdNames[k]))
                        \cup FilesUnder(fs, LogsDir(pc.exec, IdNames[k])) :
                    /\ fs[p].origin = IdNames[k]
                    /\ \E j \in 1..Len(Processed) : Processed[j].id = IdNames[k])
    /\ [][(Len(pc'.outcomes) = Len(pc.outcomes) + 1
            /\ pc'.outcomes[Len(pc'.outcomes)].id # "") =>
              LET u == pc'.outcomes[Len(pc'.outcomes)].id
              IN  /\ ~Used(fs, u)
                  /\ isdir(fs', ExperimentDir(pc.exec, u))
                  /\ \A p \in FilesUnder(fs, <<"proj", "experiments">>)
                          \cup FilesUnder(fs, <<"proj", "logs", pc.exec>>) :
                        p \in DOMAIN fs' /\ fs'[p] = fs[p]]_vars

\* a second run of the orchestrator has completed an experiment next to
\* the complete experiment of the first run, under another id
C23_Witness ==
    /\ Len(pc.earlier) >= 1 /\ pc.earlier[1].kind = "complete"
    /\ Len(pc.outcomes) >= 1 /\ pc.outcomes[1].kind = "complete"
    /\ pc.earlier[1].id # pc.outcomes[1].id
    /\ RecordComplete(pc.exec, pc.earlier[1].id, pc.entries[1].text)
    /\ RecordComplete(pc.exec, pc.outcomes[1].id, pc.entries[1].text)

\* the experiments of the execution that have a directory
Trained(f, e) == {i \in {IdNames[k] : k \in 1..Len(IdNames)} : isdir(f, ExperimentDir(e, i))}

\* the artifacts of the slot that every experiment has a file for
InAll(f, e) ==
    {p \in SlotArtifacts(f) :
        \A i \in Trained(f, e) : isfile(f, Rebase(p, DeployedDir, ExperimentDir(e, i)))}

\* the two frames of a predictions value, each <<"model", whose model made
\* it, the columns, the dates of the rows>>
TrainFrame(v) == SubSeq(v, 2, Len(v) \div 2)
ValidFrame(v) == SubSeq(v, Len(v) \div 2 + 2, Len(v))

\* the step at which get_deployed_predictions returns, and whether no
\* deploy was going on at any moment of the call
PredictionsReturn ==
    /\ last'.op = "get_deployed_predictions"
    /\ pc'.query.at = "idle"
    /\ pc'.deploy = pc.deploy
    /\ pc.query.at \in {"idle", "load"}
    /\ IF pc.query.at = "idle" THEN pc.deploy.at = "idle" ELSE ~pc.query.overlap

\* C24: a query that runs while a deploy copies can read the params file
\* of one experiment together with the model of the other (the witness);
\* once the deploy has returned and none is running, no query does: the
\* slot files that both experiments have all come from one experiment and
\* none of them is the empty file a copy has opened; a query that is
\* called and returns with no deploy going on at any moment of it does not
\* fail on a half-written file, and its two frames of predictions are made
\* with the model of the experiment whose params file it read, on the
\* dates of that file; and a deploy that returns success leaves those
\* files as the ones of the experiment it deployed, until the next deploy
\* starts.
C24_TornOnlyDuringDeploy ==
    /\ [](\A e \in Executions :
            pc.deploy.at = "idle" =>
                /\ \A p, q \in InAll(fs, e) : fs[p].origin = fs[q].origin
                /\ \A p \in InAll(fs, e) : fs[p].body # Empty(p)
                /\ last.op = "get_deployed_model_params" => last.result # "JSONDecodeError")
    /\ [][PredictionsReturn =>
            /\ last'.result \notin {"JSONDecodeError", "EOFError"}
            /\ \A e \in Executions :
                  (/\ DeployedParamsFile \in InAll(fs, e)
                   /\ DeployedDir \o <<"models", "model.pkl">> \in InAll(fs, e)) =>
                      /\ last'.result = "predictions"
                      /\ TrainFrame(last'.value)[2] = fs[DeployedParamsFile].origin
                      /\ ValidFrame(last'.value)[2] = fs[DeployedParamsFile].origin
                      /\ \A frame \in {TrainFrame(last'.value), ValidFrame(last'.value)} :
                            frame[7] = read_params(fs, DeployedParamsFile).obj["model_params"][3]]_vars
    /\ [][/\ (pc.deploy.at # "idle" /\ pc'.deploy.at = "idle") =>
                /\ last'.op = "deploy" /\ last'.result = Successful
                /\ \A p \in InAll(fs', pc.deploy.exec) : fs'[p].origin = pc.deploy.id
          /\ (pc.deploy.at = "idle" /\ pc'.deploy.at = "idle") => fs' = fs]_vars

\* while the second experiment is being deployed over the first, a query
\* returned predictions made with the first experiment's model on the
\* dates of the second experiment's params file, which the deploy had
\* already copied
C24_Witness ==
    /\ last.op = "get_deployed_predictions" /\ last.result = "predictions"
    /\ pc.deploy.at \in {"copy", "copying"} /\ pc.deploy.id = "b"
    /\ TrainFrame(last.value)[2] = "a" /\ ValidFrame(last.value)[2] = "a"
    /\ TrainFrame(last.value)[7] = LaterParams["model_params"][3]
    /\ isfile(fs, ExperimentDir(pc.deploy.exec, "b") \o <<"models", "model.pkl">>)

\* the subdirectories of a directory
Subdirs(f, d) == {name \in listdir(f, d) : isdir(f, join(d, name))}

\* the run, a deploy or a query is inside setup for the experiment
Provisioning(e, i) ==
    \E who \in {"train", "deploy", "query"} :
        pc[who].at \in {"setup", "mkdir"} /\ pc[who].exec = e /\ pc[who].id = i

\* C25: in every state an experiment directory that exists has exactly
\* the subdirectories models and plots, whatever provisioning, the
\* training run, the deploys and the queries did (while setup is at work
\* on it, it has no other than these two); every entry lies in a
\* directory that exists, and provisioning, asked again for any id, makes
\* each directory below one it has already made: it raises nothing and
\* leaves exactly the two.
C25_ExactlyModelsAndPlots ==
    /\ \A e \in Executions, k \in 1..Len(IdNames) :
          isdir(fs, ExperimentDir(e, IdNames[k])) =>
              IF Provisioning(e, IdNames[k])
              THEN Subdirs(fs, ExperimentDir(e, IdNames[k])) \subseteq {"models", "plots"}
              ELSE Subdirs(fs, ExperimentDir(e, IdNames[k])) = {"models", "plots"}
    /\ \A p \in DOMAIN fs : p # <<>> => isdir(fs, dirname(p))
    /\ \A e \in Executions, i \in Ids :
          LET r == setup(fs, e, i)
          IN  /\ r.err = "none"
              /\ Subdirs(r.fs, ExperimentDir(e, i)) = {"models", "plots"}
              /\ \A p \in DOMAIN r.fs : p # <<>> => isdir(r.fs, dirname(p))

\* a query asked for an id that named nothing and made its two
\* directories before the training run beside it drew its id; the run
\* drew another id, provisioned its experiment and saved its model
C25_Witness ==
    /\ pc.train.at = "open" /\ pc.train.n >= 3
    /\ last.op = "get_experiment_params" /\ last.result = "FileNotFoundError"
    /\ last.id = IdNames[1] /\ pc.train.id = IdNames[2]
    /\ Subdirs(fs, ExperimentDir(pc.train.exec, pc.train.id)) = {"models", "plots"}
    /\ Subdirs(fs, ExperimentDir(last.exec, last.id)) = {"models", "plots"}
    /\ FilesUnder(fs, ExperimentDir(last.exec, last.id)) = {}

\* C26: a failure of the train or validation plot does not end the
\* experiment: when the run is over, model_metrics.csv and
\* experiment_params.json of the experiment are written.
C26_PlotFailureNotFatal ==
    (pc.at = "raised" /\ pc.failed \in {"train_plot", "valid_plot"}) =>
        /\ isfile(fs, MetricsFile(pc.exec, pc.id))
        /\ isfile(fs, ParamsFile(pc.exec, pc.id))

\* the statements of a run up to and including save_model
UpToSave == {"setup", "get_modeling_data", "setup_experiment", "final_model", "save_model"}

\* C27: in every run, no prediction is made before the model is saved
\* under the experiment's models directory, and the predictions on the
\* training data and on the validation data are both made with the model
\* loaded from that file, the file this run saved, never with the model
\* the trainer holds in memory.
C27_PredictionsFromSavedModel ==
    /\ pc.at \in UpToSave =>
          pc.train_predictions = NoModel /\ pc.valid_predictions = NoModel
    /\ \A made \in {pc.train_predictions, pc.valid_predictions} :
          made # NoModel =>
              /\ made.from = "file" /\ made.of = pc.id
              /\ isfile(fs, ExperimentDir(pc.exec, pc.id) \o <<"models", "model.pkl">>)
              /\ fs[ExperimentDir(pc.exec, pc.id) \o <<"models", "model.pkl">>].origin = pc.id
              /\ pc.model = [from |-> "memory", of |-> pc.id]
    /\ pc.at = "complete" =>
          pc.train_predictions # NoModel /\ pc.valid_predictions # NoModel

\* a run is complete, next to an earlier experiment that is deployed: both
\* frames of predictions were made with the model read from its file
C27_Witness ==
    /\ pc.at = "complete"
    /\ pc.train_predictions = [from |-> "file", of |-> pc.id]
    /\ pc.valid_predictions = [from |-> "file", of |-> pc.id]
    /\ isfile(fs, DeployedDir \o <<"models", "model.pkl">>)
    /\ fs[DeployedDir \o <<"models", "model.pkl">>].origin # pc.id

\* C28: when copy_files has returned normally and nothing else touched
\* the trees, validate_deploy returns True, whatever the source and the
\* destination held; so deploy.main of a single caller never returns the
\* failure message.
C28_ValidateAfterCopyPasses ==
    /\ []((last.op = "copy_files" /\ last.result = "none") =>
              validate_deploy(fs, TreeSrc, TreeDst))
    /\ [](last.op = "deploy" => last.result # Failed)
    /\ [][(last.op = "copy_files" /\ last.result = "none" /\ last'.op = "validate_deploy")
              => last'.result = "True"]_vars

\* deploy.main returned success after its copy brought the model into a
\* destination that had a models directory without it, a params file the
\* source does not have and a file of its own
C28_Witness ==
    /\ last.op = "deploy" /\ last.result = Successful
    /\ isdir(pre, join(TreeDst, "models"))
    /\ ~exists(pre, join(join(TreeDst, "models"), "model.pkl"))
    /\ fs[join(join(TreeDst, "models"), "model.pkl")] = fs[join(join(TreeSrc, "models"), "model.pkl")]
    /\ isfile(fs, join(TreeDst, "notes.txt"))
    /\ ~exists(fs, join(TreeSrc, "experiment_params.json"))
    /\ isfile(fs, join(TreeDst, "experiment_params.json"))

\* C29: deploy.main asks nothing of the source experiment: for an
\* execution and id whose experiment directory holds no file (never
\* trained, or not yet), it makes the experiment's directories, with
\* models and plots empty, copies them, passes validation, writes the
\* description and returns success, and every params, metrics and model
\* file that was in the slot before is still there, unchanged.
C29_DeployOfUntrainedSucceeds ==
    /\ \A e \in Executions, i \in CallerIds(fs), d \in Descriptions :
          FilesUnder(fs, ExperimentDir(e, i)) = {} =>
            \A order \in CopyOrders(fs, e, i) :
              LET r == deploy_main(fs, e, i, d, order)
              IN  /\ r.result = Successful
                  /\ Subdirs(r.fs, ExperimentDir(e, i)) = {"models", "plots"}
                  /\ FilesUnder(r.fs, ExperimentDir(e, i)) = {}
                  /\ isdir(r.fs, DeployedDir \o <<"models">>)
                  /\ isdir(r.fs, DeployedDir \o <<"plots">>)
                  /\ isfile(r.fs, DescFile) /\ r.fs[DescFile].body = d
                  /\ \A p \in SlotArtifacts(fs) : p \in DOMAIN r.fs /\ r.fs[p] = fs[p]
    /\ (last.op = "deploy" /\ FilesUnder(fs, ExperimentDir(last.exec, last.id)) = {}) =>
          /\ last.result = Successful
          /\ isfile(fs, DescFile) /\ fs[DescFile].body = last.desc

\* an id that names no experiment was deployed with success over a slot
\* that holds the params file and the model of a trained experiment
C29_Witness ==
    /\ last.op = "deploy" /\ last.result = Successful
    /\ FilesUnder(fs, ExperimentDir(last.exec, last.id)) = {}
    /\ FilesUnder(fs, LogsDir(last.exec, last.id)) = {}
    /\ isfile(fs, DeployedParamsFile) /\ fs[DeployedParamsFile].origin # last.id
    /\ isfile(fs, DeployedDir \o <<"models", "model.pkl">>)
    /\ fs[DescFile].body = last.desc

\* C30: an entry that is skipped, its params file missing or its params
\* invalid, leaves no trace: no id is generated for it, and the pass of
\* the loop that skips it creates and changes no file and no directory,
\* under experiments, logs and deployed_models or anywhere else.
C30_SkippedEntryLeavesNoTrace ==
    /\ [](\A j \in 1..Len(pc.outcomes) :
            pc.outcomes[j].kind = "skipped" => pc.outcomes[j].id = "")
    /\ [][(/\ Len(pc'.outcomes) = Len(pc.outcomes) + 1
            /\ pc'.outcomes[Len(pc'.outcomes)].kind = "skipped") =>
              /\ fs' = fs
              /\ \A k \in 1..Len(IdNames) : Used(fs', IdNames[k]) <=> Used(fs, IdNames[k])
              /\ uuid4(fs') = uuid4(fs)
              /\ (~pc.entries[pc.k].present \/ ~AllSevenNonNull(ParamsOf(pc.k)))]_vars

\* a batch returned whose first entry was run to its end and whose second
\* entry, with a null model_params, was skipped: one experiment exists
C30_Witness ==
    /\ pc.at = "returned"
    /\ Len(pc.entries) = 2
    /\ pc.outcomes[1].kind = "complete"
    /\ pc.outcomes[2].kind = "skipped" /\ pc.outcomes[2].what = "NotValidParamsException"
    /\ Parsed(2) /\ ParamsOf(2)["model_params"] = <<"None">>
    /\ Cardinality({k \in 1..Len(IdNames) : Used(fs, IdNames[k])}) = 1

====
